---------------------------- MODULE Spec2Model ----------------------------
(***************************************************************************)
(* A model of the mml-player playback engine: the voice registry, the      *)
(* master gain, playSample / playMml / stopMml / stopped, the deferred     *)
(* timers of stopMml, the natural-end callback of a voice, and the         *)
(* offline scheduler of mmlToWavUrl.                                       *)
(*                                                                         *)
(* Units.  The source measures durations in milliseconds and audio times   *)
(* in seconds; the model keeps every time in integer milliseconds, so the  *)
(* source's "duration / 1000" is the change of unit and 0.01 s is 10.      *)
(* Frequencies are kept in hundredths of a hertz (the source rounds to     *)
(* two decimals).  Gains are kept in decibels (the source's                *)
(* 10^(dB/20) is monotone in dB), with a separate value for silence.       *)
(* Strings are sequences of one-character strings.                         *)
(***************************************************************************)
EXTENDS Integers, Sequences, FiniteSets, TLC

(***************************************************************************)
(* Bounds of the model.                                                    *)
(***************************************************************************)
MaxVoices == 2        \* voices ever created on the live context
MaxStops == 2         \* stop() calls
MaxTime == 20         \* the audio clock stops advancing here (ms)
MaxTracks == 2        \* tracks of a score
MaxEvents == 3        \* events of a score, over all its tracks

(***************************************************************************)
(* Program constants (seconds in the source, milliseconds here).           *)
(***************************************************************************)
MASTER_FADE_DURATION_MS == 10
DEFAULT_FADE_DURATION_MS == 10
LOOKAHEAD_MS == 100
DEFAULT_DURATION_MS == 1000
MIN_DB == -60
MAX_DB == 0

(***************************************************************************)
(* Strings.                                                                *)
(***************************************************************************)
UpperChars == <<"A", "B", "C", "D", "E", "F", "G", "H", "I", "J", "K", "L", "M", "N", "O", "P",
               "Q", "R", "S", "T", "U", "V", "W", "X", "Y", "Z">>
LowerChars == <<"a", "b", "c", "d", "e", "f", "g", "h", "i", "j", "k", "l", "m", "n", "o", "p",
               "q", "r", "s", "t", "u", "v", "w", "x", "y", "z">>
WhiteSpace == {" ", "\t", "\n"}
Digits == <<"0", "1", "2", "3", "4", "5", "6", "7", "8", "9">>

IndexIn(seq, c) == CHOOSE i \in 1..Len(seq) : seq[i] = c
Occurs(seq, c) == \E i \in 1..Len(seq) : seq[i] = c

ToLowerChar(c) == IF Occurs(UpperChars, c) THEN LowerChars[IndexIn(UpperChars, c)] ELSE c
ToUpperChar(c) == IF Occurs(LowerChars, c) THEN UpperChars[IndexIn(LowerChars, c)] ELSE c
\* Variant: the text is left in the case it came in.
ToLowerCaseLeftOut(s) == s
ToLowerCase(s) == [i \in 1..Len(s) |-> ToLowerChar(s[i])]
ToUpperCase(s) == [i \in 1..Len(s) |-> ToUpperChar(s[i])]

RECURSIVE TrimStart(_)
TrimStart(s) == IF s # <<>> /\ Head(s) \in WhiteSpace THEN TrimStart(Tail(s)) ELSE s
RECURSIVE TrimEnd(_)
TrimEnd(s) ==
    IF s # <<>> /\ s[Len(s)] \in WhiteSpace THEN TrimEnd(SubSeq(s, 1, Len(s) - 1)) ELSE s
Trim(s) == TrimEnd(TrimStart(s))

IsDigit(c) == Occurs(Digits, c)
DigitValue(c) == IndexIn(Digits, c) - 1
AllDigits(s) == s # <<>> /\ \A i \in 1..Len(s) : IsDigit(s[i])
RECURSIVE ParseInt(_)
ParseInt(s) ==
    IF s = <<>> THEN 0 ELSE 10 * ParseInt(SubSeq(s, 1, Len(s) - 1)) + DigitValue(s[Len(s)])

(***************************************************************************)
(* Numbers.  NotFinite stands for every non-finite number (NaN, Infinity)  *)
(* and every non-number a caller can pass where a number is expected.      *)
(***************************************************************************)
NotFinite == -1000000
IsFinite(x) == x # NotFinite
Max(a, b) == IF a >= b THEN a ELSE b
Min(a, b) == IF a <= b THEN a ELSE b
Abs(x) == IF x < 0 THEN -x ELSE x

(***************************************************************************)
(* noteToFrequency.  FrequencyTable[d + 50] is                             *)
(* Math.round(440 * 2^(d/12) * 100) for the semitone distance d in         *)
(* -49..72 (every note of the octaves 0..9).  Beyond the distance          *)
(* MaxFiniteDistance, 440 * 2^(d/12) * 100 exceeds the largest double and  *)
(* the result is Infinity; the distances between the table and that one    *)
(* are not modelled.                                                       *)
(***************************************************************************)
MaxFiniteDistance == 12102
FrequencyTable ==
  << 2596, 2750, 2914, 3087, 3270, 3465, 3671, 3889,
     4120, 4365, 4625, 4900, 5191, 5500, 5827, 6174,
     6541, 6930, 7342, 7778, 8241, 8731, 9250, 9800,
     10383, 11000, 11654, 12347, 13081, 13859, 14683, 15556,
     16481, 17461, 18500, 19600, 20765, 22000, 23308, 24694,
     26163, 27718, 29366, 31113, 32963, 34923, 36999, 39200,
     41530, 44000, 46616, 49388, 52325, 55437, 58733, 62225,
     65926, 69846, 73999, 78399, 83061, 88000, 93233, 98777,
     104650, 110873, 117466, 124451, 131851, 139691, 147998, 156798,
     166122, 176000, 186466, 197553, 209300, 221746, 234932, 248902,
     263702, 279383, 295996, 313596, 332244, 352000, 372931, 395107,
     418601, 443492, 469864, 497803, 527404, 558765, 591991, 627193,
     664488, 704000, 745862, 790213, 837202, 886984, 939727, 995606,
     1054808, 1117530, 1183982, 1254385, 1328975, 1408000, 1491724, 1580427,
     1674404, 1773969, 1879455, 1991213, 2109616, 2235061, 2367964, 2508771,
     2657950, 2816000 >>

NoteLetters == <<"c", "d", "e", "f", "g", "a", "b">>
SemitoneMap == <<0, 2, 4, 5, 7, 9, 11>>

\* Variant: '#' is the only accidental.
NoteAccidentalSharpOnly(n) == IF Len(n) >= 2 /\ n[2] = "#" THEN <<n[2]>> ELSE <<>>

\* The regular expression /^([a-g])([#b]?)(\d+)$/ on the trimmed, lower-cased note.
NoteAccidental(n) == IF Len(n) >= 2 /\ n[2] \in {"#", "b"} THEN <<n[2]>> ELSE <<>>
NoteOctaveText(n) == SubSeq(n, 2 + Len(NoteAccidental(n)), Len(n))
NoteMatches(n) ==
    /\ Len(n) >= 2
    /\ Occurs(NoteLetters, n[1])
    /\ AllDigits(NoteOctaveText(n))

\* Variant: an octave of eleven semitones.
NoteDistanceShortOctave(n) ==
    LET base == SemitoneMap[IndexIn(NoteLetters, n[1])]
        acc == NoteAccidental(n)
        offset == IF acc = <<"#">> THEN base + 1 ELSE IF acc = <<"b">> THEN base - 1 ELSE base
    IN  offset + (ParseInt(NoteOctaveText(n)) - 4) * 11

NoteDistance(n) ==
    LET base == SemitoneMap[IndexIn(NoteLetters, n[1])]
        acc == NoteAccidental(n)
        offset == IF acc = <<"#">> THEN base + 1 ELSE IF acc = <<"b">> THEN base - 1 ELSE base
    IN  offset + (ParseInt(NoteOctaveText(n)) - 4) * 12

NoteToFrequencyThrows(note) == ~NoteMatches(ToLowerCase(Trim(note)))
NoteToFrequency(note) ==
    LET distanceFromC4 == NoteDistance(ToLowerCase(Trim(note)))
    IN  IF distanceFromC4 > MaxFiniteDistance THEN NotFinite
        ELSE FrequencyTable[distanceFromC4 + 50]

(***************************************************************************)
(* Gain values.  Silent is the gain 0; the gain 10^(dB/20) is kept as      *)
(* dB - MIN_DB + 1, so FullGain (the gain 1, 0 dB) is 61.  Partial stands  *)
(* for a value strictly inside a ramp, between its two end values.         *)
(* Volumes are kept in fifteenths (the parser's V0..V15 scale).            *)
(***************************************************************************)
Silent == 0
Partial == -1
VolumeScale == 15
FullGain == MAX_DB - MIN_DB + 1

ConvertVolumeToGain(volume) ==
    IF volume = 0 THEN Silent
    ELSE LET dB == MIN_DB + ((MAX_DB - MIN_DB) * volume) \div VolumeScale
         IN  dB - MIN_DB + 1

(***************************************************************************)
(* AudioParam automation: the timeline of events of a gain parameter.      *)
(***************************************************************************)
NewParam(v) == [value |-> v, events |-> <<>>]

CancelScheduledValues(p, t) ==
    [p EXCEPT !.events = SelectSeq(p.events, LAMBDA e : e.time < t)]

\* An event is inserted after every event whose time is not later than its own.
InsertEvent(p, e) ==
    LET k == Cardinality({i \in 1..Len(p.events) : p.events[i].time <= e.time})
    IN  [p EXCEPT !.events = SubSeq(p.events, 1, k) \o <<e>> \o SubSeq(p.events, k + 1, Len(p.events))]

SetValueAtTime(p, v, t) == InsertEvent(p, [type |-> "set", value |-> v, time |-> t])
LinearRampToValueAtTime(p, v, t) == InsertEvent(p, [type |-> "ramp", value |-> v, time |-> t])

\* The computed value of the parameter at time t (AudioParam.value read at t).
ValueAt(p, t) ==
    LET past == {i \in 1..Len(p.events) : p.events[i].time <= t}
        k == Cardinality(past)
        from == IF k = 0 THEN p.value ELSE p.events[k].value
        ramping == k < Len(p.events) /\ p.events[k + 1].type = "ramp"
    IN  IF ramping /\ p.events[k + 1].value # from /\ ~(k > 0 /\ p.events[k].time = t)
        THEN Partial
        ELSE from

\* The value the parameter keeps once its last event has passed.
FinalValue(p) == IF p.events = <<>> THEN p.value ELSE p.events[Len(p.events)].value
LastEventTime(p) == IF p.events = <<>> THEN 0 ELSE p.events[Len(p.events)].time

ScheduleGainEnvelope(p, startTime, durationMs, targetGain) ==
    LET fadeDuration == DEFAULT_FADE_DURATION_MS
        stopTime == startTime + durationMs
        fadeOutStart == Max(startTime, stopTime - fadeDuration)
        p1 == SetValueAtTime(CancelScheduledValues(p, startTime), Silent, startTime)
        p2 == IF fadeDuration > 0
              THEN LinearRampToValueAtTime(p1, targetGain, startTime + fadeDuration)
              ELSE SetValueAtTime(p1, targetGain, startTime)
        p3 == IF fadeOutStart > startTime + fadeDuration
              THEN SetValueAtTime(p2, targetGain, fadeOutStart)
              ELSE p2
    IN  IF fadeDuration > 0
        THEN LinearRampToValueAtTime(p3, Silent, stopTime)
        ELSE SetValueAtTime(p3, Silent, stopTime)

(***************************************************************************)
(* The sample store: instrument key -> slots, a slot being a frequency     *)
(* and the buffer stored under it.  Slots are kept in the order the        *)
(* instrument's frequency keys were first written.                         *)
(***************************************************************************)
HasInstrument(store, key) == key \in DOMAIN store
SlotIndex(slots, f) == CHOOSE i \in 1..Len(slots) : slots[i].freq = f
HasSlot(slots, f) == \E i \in 1..Len(slots) : slots[i].freq = f

\* Object.keys of a frequency map: the keys that are array indices (whole
\* numbers of hertz) in ascending order, then the others in insertion order.
IsIndexKey(f) == f >= 0 /\ f % 100 = 0
RECURSIVE SortAscending(_)
SortAscending(set) ==
    IF set = {} THEN <<>>
    ELSE LET m == CHOOSE x \in set : \A y \in set : x <= y
         IN  <<m>> \o SortAscending(set \ {m})
ObjectKeys(slots) ==
    LET freqs == [i \in 1..Len(slots) |-> slots[i].freq]
    IN  SortAscending({freqs[i] : i \in {j \in 1..Len(slots) : IsIndexKey(freqs[j])}})
        \o SelectSeq(freqs, LAMBDA f : ~IsIndexKey(f))

\* Variant: the first key is taken as the nearest.
NearestFromFirstKey(freqs, index, nearest, target) == nearest

\* Variant: a later key as near as the nearest so far takes its place.
RECURSIVE NearestFromLastOnTie(_, _, _, _)
NearestFromLastOnTie(freqs, index, nearest, target) ==
    IF index > Len(freqs) THEN nearest
    ELSE IF Abs(freqs[index] - target) <= Abs(nearest - target)
         THEN NearestFromLastOnTie(freqs, index + 1, freqs[index], target)
         ELSE NearestFromLastOnTie(freqs, index + 1, nearest, target)

RECURSIVE NearestFrom(_, _, _, _)
NearestFrom(freqs, index, nearest, target) ==
    IF index > Len(freqs) THEN nearest
    ELSE IF Abs(freqs[index] - target) < Abs(nearest - target)
         THEN NearestFrom(freqs, index + 1, freqs[index], target)
         ELSE NearestFrom(freqs, index + 1, nearest, target)

NoBuffer == [found |-> FALSE, buffer |-> 0, rateNum |-> 0, rateDen |-> 1]

\* The playback rate targetFrequency / nearestFrequency is kept as the pair
\* (rateNum, rateDen).  It is finite iff the target is finite and the nearest
\* frequency is not 0, and it is then positive iff the two have the same sign.
\* A target that is not finite makes every difference NaN or Infinity, so that
\* no candidate is nearer than the first key.
IsFiniteRate(num, den) == IsFinite(num) /\ den # 0
IsPositiveRate(num, den) == (num > 0 /\ den > 0) \/ (num < 0 /\ den < 0)

\* Variant: only a buffer stored at the target frequency itself is a match.
ResolveBufferExactOnly(slots, targetFrequency) ==
    IF HasSlot(slots, targetFrequency)
    THEN [found |-> TRUE, buffer |-> slots[SlotIndex(slots, targetFrequency)].buffer,
          rateNum |-> 1, rateDen |-> 1]
    ELSE NoBuffer

\* Variant: the rate is returned as computed.
ResolveBufferRateUnchecked(slots, targetFrequency) ==
    IF HasSlot(slots, targetFrequency)
    THEN [found |-> TRUE, buffer |-> slots[SlotIndex(slots, targetFrequency)].buffer,
          rateNum |-> 1, rateDen |-> 1]
    ELSE LET availableFrequencies == SelectSeq(ObjectKeys(slots), IsFinite)
         IN  IF Len(availableFrequencies) = 0 THEN NoBuffer
             ELSE LET nearestFrequency ==
                          IF IsFinite(targetFrequency)
                          THEN NearestFrom(availableFrequencies, 2, availableFrequencies[1],
                                           targetFrequency)
                          ELSE availableFrequencies[1]
                  IN  IF ~HasSlot(slots, nearestFrequency) THEN NoBuffer
                      ELSE IF FALSE THEN NoBuffer
                      ELSE [found |-> TRUE,
                            buffer |-> slots[SlotIndex(slots, nearestFrequency)].buffer,
                            rateNum |-> targetFrequency, rateDen |-> nearestFrequency]

ResolveBuffer(slots, targetFrequency) ==
    IF HasSlot(slots, targetFrequency)
    THEN [found |-> TRUE, buffer |-> slots[SlotIndex(slots, targetFrequency)].buffer,
          rateNum |-> 1, rateDen |-> 1]
    ELSE LET availableFrequencies == SelectSeq(ObjectKeys(slots), IsFinite)
         IN  IF Len(availableFrequencies) = 0 THEN NoBuffer
             ELSE LET nearestFrequency ==
                          IF IsFinite(targetFrequency)
                          THEN NearestFrom(availableFrequencies, 2, availableFrequencies[1],
                                           targetFrequency)
                          ELSE availableFrequencies[1]
                  IN  IF ~HasSlot(slots, nearestFrequency) THEN NoBuffer
                      ELSE IF ~IsFiniteRate(targetFrequency, nearestFrequency)
                              \/ ~IsPositiveRate(targetFrequency, nearestFrequency) THEN NoBuffer
                      ELSE [found |-> TRUE,
                            buffer |-> slots[SlotIndex(slots, nearestFrequency)].buffer,
                            rateNum |-> targetFrequency, rateDen |-> nearestFrequency]

(***************************************************************************)
(* The MML parser: mmlToNote, parseLine, parseNote and their helpers.      *)
(* A duration is the exact fraction of a millisecond [num, den] in lowest  *)
(* terms; a volume is in fifteenths, so the source's clamped / 15 is the   *)
(* clamped value itself.  Positions in a text count from 1.                *)
(***************************************************************************)
MML_PREFIX == <<"M", "M", "L", "@">>
MML_SUFFIX == <<";">>
MIN_TEMPO == 40
MAX_TEMPO == 200
MIN_OCTAVE == 1
MAX_OCTAVE == 7
MIN_VOLUME == 0
MAX_VOLUME == 15
MIN_LENGTH == 1
MAX_LENGTH == 64
DEFAULT_TEMPO == 120
DEFAULT_OCTAVE == 4
DEFAULT_VOLUME == 12
DEFAULT_LENGTH == 4
MS_PER_MINUTE == 60000
BEATS_PER_WHOLE == 4

\* readNumber's null
Null == -1
\* Variant: a missing number is passed on as it is.
OrElseKept(value, d) == value
OrElse(value, d) == IF value = Null THEN d ELSE value

RECURSIVE Gcd(_, _)
Gcd(a, b) == IF b = 0 THEN a ELSE Gcd(b, a % b)
Fraction(num, den) == [num |-> num \div Gcd(num, den), den |-> den \div Gcd(num, den)]

\* Variant: only the lower end is enforced.
ClampNumberFromBelow(value, min, max) ==
    IF value < min THEN min ELSE value

ClampNumber(value, min, max) ==
    IF value < min THEN min ELSE IF value > max THEN max ELSE value

IsNoteToken(char) == char \in {"A", "B", "C", "D", "E", "F", "G", "R"}

ConvertVolume(volume) ==
    LET clamped == ClampNumber(volume, MIN_VOLUME, MAX_VOLUME)
    IN  IF clamped = 0 THEN 0 ELSE clamped

\* Variant: the beats of a note in whole numbers.
ComputeDurationWholeBeats(tempo, length, isDotted) ==
    Fraction((MS_PER_MINUTE \div ClampNumber(tempo, MIN_TEMPO, MAX_TEMPO))
                 * (BEATS_PER_WHOLE \div ClampNumber(length, MIN_LENGTH, MAX_LENGTH))
                 * (IF isDotted THEN 3 ELSE 2),
             2)

\* (60000 / tempo) * (4 / length), times 1.5 when dotted
ComputeDuration(tempo, length, isDotted) ==
    LET clampedTempo == ClampNumber(tempo, MIN_TEMPO, MAX_TEMPO)
        clampedLength == ClampNumber(length, MIN_LENGTH, MAX_LENGTH)
    IN  Fraction(MS_PER_MINUTE * BEATS_PER_WHOLE * (IF isDotted THEN 3 ELSE 2),
                 clampedTempo * clampedLength * 2)

\* The first position at or after cursor that holds no digit.
RECURSIVE DigitsEnd(_, _)
DigitsEnd(source, cursor) ==
    IF cursor <= Len(source) /\ IsDigit(source[cursor]) THEN DigitsEnd(source, cursor + 1)
    ELSE cursor

ReadNumber(source, startIndex) ==
    LET cursor == DigitsEnd(source, startIndex)
    IN  IF cursor = startIndex THEN [value |-> Null, nextIndex |-> cursor]
        ELSE [value |-> ParseInt(SubSeq(source, startIndex, cursor - 1)), nextIndex |-> cursor]

ReadLength(source, startIndex) ==
    LET number == ReadNumber(source, startIndex)
    IN  IF number.value = Null THEN [length |-> Null, nextIndex |-> number.nextIndex]
        ELSE [length |-> ClampNumber(number.value, MIN_LENGTH, MAX_LENGTH),
              nextIndex |-> number.nextIndex]

\* Variant: the dot after a note is not looked at.
ReadDotUnseen(source, startIndex) ==
    [isDotted |-> FALSE, nextIndex |-> startIndex]

ReadDot(source, startIndex) ==
    IF startIndex <= Len(source) /\ source[startIndex] = "."
    THEN [isDotted |-> TRUE, nextIndex |-> startIndex + 1]
    ELSE [isDotted |-> FALSE, nextIndex |-> startIndex]

\* The decimal text of a natural number.
RECURSIVE NumberText(_)
NumberText(n) == IF n < 10 THEN <<Digits[n + 1]>> ELSE NumberText(n \div 10) \o <<Digits[(n % 10) + 1]>>

\* Variant: a rest is named by its letter, not by the REST sentinel.
ParseNoteRestAsLetter(source, startIndex, context) ==
    LET letter == source[startIndex]
        afterLetter == startIndex + 1
        sign == IF afterLetter <= Len(source) THEN source[afterLetter] ELSE ""
        accidental == IF letter = "R" THEN <<>>
                      ELSE IF sign = "+" THEN <<"#">>
                      ELSE IF sign = "-" THEN <<"B">>
                      ELSE <<>>
        figure == ReadLength(source, afterLetter + Len(accidental))
        dotted == ReadDot(source, figure.nextIndex)
        lengthValue == OrElse(figure.length, context.defaultLength)
        duration == ComputeDuration(context.tempo, lengthValue, dotted.isDotted)
    IN  [note |-> IF letter = "R" THEN <<"R">>
                  ELSE <<letter>> \o accidental \o NumberText(context.octave),
         duration |-> duration,
         volume |-> ConvertVolume(context.volume),
         nextIndex |-> dotted.nextIndex]

\* Variant: the note is named at the default octave, whatever the staff has set.
ParseNoteAtDefaultOctave(source, startIndex, context) ==
    LET letter == source[startIndex]
        afterLetter == startIndex + 1
        sign == IF afterLetter <= Len(source) THEN source[afterLetter] ELSE ""
        accidental == IF letter = "R" THEN <<>>
                      ELSE IF sign = "+" THEN <<"#">>
                      ELSE IF sign = "-" THEN <<"B">>
                      ELSE <<>>
        figure == ReadLength(source, afterLetter + Len(accidental))
        dotted == ReadDot(source, figure.nextIndex)
        lengthValue == OrElse(figure.length, context.defaultLength)
        duration == ComputeDuration(context.tempo, lengthValue, dotted.isDotted)
    IN  [note |-> IF letter = "R" THEN <<"R", "E", "S", "T">>
                  ELSE <<letter>> \o accidental \o NumberText(DEFAULT_OCTAVE),
         duration |-> duration,
         volume |-> ConvertVolume(context.volume),
         nextIndex |-> dotted.nextIndex]

ParseNote(source, startIndex, context) ==
    LET letter == source[startIndex]
        afterLetter == startIndex + 1
        sign == IF afterLetter <= Len(source) THEN source[afterLetter] ELSE ""
        accidental == IF letter = "R" THEN <<>>
                      ELSE IF sign = "+" THEN <<"#">>
                      ELSE IF sign = "-" THEN <<"B">>
                      ELSE <<>>
        figure == ReadLength(source, afterLetter + Len(accidental))
        dotted == ReadDot(source, figure.nextIndex)
        lengthValue == OrElse(figure.length, context.defaultLength)
        duration == ComputeDuration(context.tempo, lengthValue, dotted.isDotted)
    IN  [note |-> IF letter = "R" THEN <<"R", "E", "S", "T">>
                  ELSE <<letter>> \o accidental \o NumberText(context.octave),
         duration |-> duration,
         volume |-> ConvertVolume(context.volume),
         nextIndex |-> dotted.nextIndex]

\* parseLine from position cursor on; state = [tempo, octave, volume, defaultLength].
RECURSIVE ParseTokens(_, _, _, _, _)
ParseTokens(line, name, cursor, state, results) ==
    IF cursor > Len(line) THEN [results |-> results, state |-> state]
    ELSE LET token == line[cursor]
             number == ReadNumber(line, cursor + 1)
         IN  IF token \in {" ", "\t", "\n"}
             THEN ParseTokens(line, name, cursor + 1, state, results)
             ELSE IF token = "T"
             THEN ParseTokens(line, name, number.nextIndex,
                      [state EXCEPT !.tempo = ClampNumber(OrElse(number.value, DEFAULT_TEMPO),
                                                          MIN_TEMPO, MAX_TEMPO)],
                      results)
             ELSE IF token = "O"
             THEN ParseTokens(line, name, number.nextIndex,
                      [state EXCEPT !.octave = ClampNumber(OrElse(number.value, DEFAULT_OCTAVE),
                                                           MIN_OCTAVE, MAX_OCTAVE)],
                      results)
             ELSE IF token = "V"
             THEN ParseTokens(line, name, number.nextIndex,
                      [state EXCEPT !.volume = ClampNumber(OrElse(number.value, DEFAULT_VOLUME),
                                                           MIN_VOLUME, MAX_VOLUME)],
                      results)
             ELSE IF token = "L"
             THEN ParseTokens(line, name, number.nextIndex,
                      [state EXCEPT !.defaultLength =
                          ClampNumber(OrElse(number.value, DEFAULT_LENGTH), MIN_LENGTH, MAX_LENGTH)],
                      results)
             ELSE IF token = ">"
             THEN ParseTokens(line, name, cursor + 1,
                      [state EXCEPT !.octave = ClampNumber(state.octave + 1, MIN_OCTAVE, MAX_OCTAVE)],
                      results)
             ELSE IF token = "<"
             THEN ParseTokens(line, name, cursor + 1,
                      [state EXCEPT !.octave = ClampNumber(state.octave - 1, MIN_OCTAVE, MAX_OCTAVE)],
                      results)
             ELSE IF IsNoteToken(token)
             THEN LET note == ParseNote(line, cursor, state)
                  IN  ParseTokens(line, name, note.nextIndex, state,
                          Append(results, [name |-> name, note |-> note.note,
                                           duration |-> note.duration, volume |-> note.volume]))
             ELSE ParseTokens(line, name, cursor + 1, state, results)

\* One pass of the while loop of parseLine, entered with cursor <= Len(line):
\* the cursor, the staff's state and the results it leaves.
\* Variant: a character that is no token is not stepped over.
ParseIterationStuck(line, name, cursor, state, results) ==
    LET token == line[cursor]
        number == ReadNumber(line, cursor + 1)
    IN  IF token \in {" ", "\t", "\n"}
        THEN [cursor |-> cursor + 1, state |-> state, results |-> results]
        ELSE IF token = "T"
        THEN [cursor |-> number.nextIndex,
              state |-> [state EXCEPT !.tempo = ClampNumber(OrElse(number.value, DEFAULT_TEMPO),
                                                            MIN_TEMPO, MAX_TEMPO)],
              results |-> results]
        ELSE IF token = "O"
        THEN [cursor |-> number.nextIndex,
              state |-> [state EXCEPT !.octave = ClampNumber(OrElse(number.value, DEFAULT_OCTAVE),
                                                             MIN_OCTAVE, MAX_OCTAVE)],
              results |-> results]
        ELSE IF token = "V"
        THEN [cursor |-> number.nextIndex,
              state |-> [state EXCEPT !.volume = ClampNumber(OrElse(number.value, DEFAULT_VOLUME),
                                                             MIN_VOLUME, MAX_VOLUME)],
              results |-> results]
        ELSE IF token = "L"
        THEN [cursor |-> number.nextIndex,
              state |-> [state EXCEPT !.defaultLength =
                            ClampNumber(OrElse(number.value, DEFAULT_LENGTH), MIN_LENGTH, MAX_LENGTH)],
              results |-> results]
        ELSE IF token = ">"
        THEN [cursor |-> cursor + 1,
              state |-> [state EXCEPT !.octave = ClampNumber(state.octave + 1, MIN_OCTAVE, MAX_OCTAVE)],
              results |-> results]
        ELSE IF token = "<"
        THEN [cursor |-> cursor + 1,
              state |-> [state EXCEPT !.octave = ClampNumber(state.octave - 1, MIN_OCTAVE, MAX_OCTAVE)],
              results |-> results]
        ELSE IF IsNoteToken(token)
        THEN LET note == ParseNote(line, cursor, state)
             IN  [cursor |-> note.nextIndex,
                  state |-> state,
                  results |-> Append(results, [name |-> name, note |-> note.note,
                                               duration |-> note.duration, volume |-> note.volume])]
        ELSE [cursor |-> cursor, state |-> state, results |-> results]

ParseIteration(line, name, cursor, state, results) ==
    LET token == line[cursor]
        number == ReadNumber(line, cursor + 1)
    IN  IF token \in {" ", "\t", "\n"}
        THEN [cursor |-> cursor + 1, state |-> state, results |-> results]
        ELSE IF token = "T"
        THEN [cursor |-> number.nextIndex,
              state |-> [state EXCEPT !.tempo = ClampNumber(OrElse(number.value, DEFAULT_TEMPO),
                                                            MIN_TEMPO, MAX_TEMPO)],
              results |-> results]
        ELSE IF token = "O"
        THEN [cursor |-> number.nextIndex,
              state |-> [state EXCEPT !.octave = ClampNumber(OrElse(number.value, DEFAULT_OCTAVE),
                                                             MIN_OCTAVE, MAX_OCTAVE)],
              results |-> results]
        ELSE IF token = "V"
        THEN [cursor |-> number.nextIndex,
              state |-> [state EXCEPT !.volume = ClampNumber(OrElse(number.value, DEFAULT_VOLUME),
                                                             MIN_VOLUME, MAX_VOLUME)],
              results |-> results]
        ELSE IF token = "L"
        THEN [cursor |-> number.nextIndex,
              state |-> [state EXCEPT !.defaultLength =
                            ClampNumber(OrElse(number.value, DEFAULT_LENGTH), MIN_LENGTH, MAX_LENGTH)],
              results |-> results]
        ELSE IF token = ">"
        THEN [cursor |-> cursor + 1,
              state |-> [state EXCEPT !.octave = ClampNumber(state.octave + 1, MIN_OCTAVE, MAX_OCTAVE)],
              results |-> results]
        ELSE IF token = "<"
        THEN [cursor |-> cursor + 1,
              state |-> [state EXCEPT !.octave = ClampNumber(state.octave - 1, MIN_OCTAVE, MAX_OCTAVE)],
              results |-> results]
        ELSE IF IsNoteToken(token)
        THEN LET note == ParseNote(line, cursor, state)
             IN  [cursor |-> note.nextIndex,
                  state |-> state,
                  results |-> Append(results, [name |-> name, note |-> note.note,
                                               duration |-> note.duration, volume |-> note.volume])]
        ELSE [cursor |-> cursor + 1, state |-> state, results |-> results]

InitialLineState ==
    [tempo |-> DEFAULT_TEMPO, octave |-> DEFAULT_OCTAVE, volume |-> DEFAULT_VOLUME,
     defaultLength |-> DEFAULT_LENGTH]

ParseLine(line, name) == ParseTokens(line, name, 1, InitialLineState, <<>>).results

\* String.prototype.split on a one-character separator
RECURSIVE Split(_, _)
Split(s, separator) ==
    IF ~Occurs(s, separator) THEN <<s>>
    ELSE LET at == CHOOSE i \in 1..Len(s) :
                       s[i] = separator /\ \A j \in 1..(i - 1) : s[j] # separator
         IN  <<SubSeq(s, 1, at - 1)>> \o Split(SubSeq(s, at + 1, Len(s)), separator)

StartsWith(s, prefix) == Len(s) >= Len(prefix) /\ SubSeq(s, 1, Len(prefix)) = prefix
\* Variant: the end of the text is not looked at.
EndsWithAnything(s, suffix) == Len(s) >= Len(suffix)

EndsWith(s, suffix) ==
    Len(s) >= Len(suffix) /\ SubSeq(s, Len(s) - Len(suffix) + 1, Len(s)) = suffix

\* The staffs of a score body: split on commas, trimmed, the empty ones dropped.
Staffs(body) ==
    SelectSeq([i \in 1..Len(Split(body, ",")) |-> Trim(Split(body, ",")[i])],
              LAMBDA line : Len(line) > 0)

\* Variant: one running state for the whole score, each staff going on from the
\* state the staff before it ended in.
RECURSIVE ParseLinesOn(_, _, _)
ParseLinesOn(staffs, name, state) ==
    IF staffs = <<>> THEN <<>>
    ELSE LET line == ParseTokens(Head(staffs), name, 1, state, <<>>)
         IN  <<line.results>> \o ParseLinesOn(Tail(staffs), name, line.state)
MmlToNoteOneState(text, name) ==
    LET trimmed == Trim(text)
        upperCased == ToUpperCase(trimmed)
        body == SubSeq(upperCased, Len(MML_PREFIX) + 1, Len(upperCased) - Len(MML_SUFFIX))
        lines == ParseLinesOn(Staffs(body), name, InitialLineState)
    IN  IF Len(trimmed) = 0 THEN [op |-> "parse", threw |-> "none", tracks |-> <<>>]
        ELSE IF ~StartsWith(upperCased, MML_PREFIX)
        THEN [op |-> "parse", threw |-> "Error", tracks |-> <<>>]
        ELSE IF ~EndsWith(upperCased, MML_SUFFIX)
        THEN [op |-> "parse", threw |-> "Error", tracks |-> <<>>]
        ELSE [op |-> "parse", threw |-> "none",
              tracks |-> SelectSeq(lines, LAMBDA notes : Len(notes) > 0)]

MmlToNote(text, name) ==
    LET trimmed == Trim(text)
        upperCased == ToUpperCase(trimmed)
        body == SubSeq(upperCased, Len(MML_PREFIX) + 1, Len(upperCased) - Len(MML_SUFFIX))
        staffs == Staffs(body)
        lines == [i \in 1..Len(staffs) |-> ParseLine(staffs[i], name)]
    IN  IF Len(trimmed) = 0 THEN [op |-> "parse", threw |-> "none", tracks |-> <<>>]
        ELSE IF ~StartsWith(upperCased, MML_PREFIX)
        THEN [op |-> "parse", threw |-> "Error", tracks |-> <<>>]
        ELSE IF ~EndsWith(upperCased, MML_SUFFIX)
        THEN [op |-> "parse", threw |-> "Error", tracks |-> <<>>]
        ELSE [op |-> "parse", threw |-> "none",
              tracks |-> SelectSeq(lines, LAMBDA notes : Len(notes) > 0)]

(***************************************************************************)
(* State.                                                                  *)
(***************************************************************************)
VARIABLES
    now,          \* ctx.currentTime, in ms
    nodes,        \* every voice created so far, by creation order
    activeNodes,  \* the registry: voice numbers in Set insertion order
    masterGain,   \* this.masterGain: the number of the current master gain node
    masters,      \* every master gain node created so far
    timers,       \* pending setTimeout callbacks, in the order they will fire
    buffers,      \* the sample store
    stops,        \* stop() calls made
    score,        \* the tracks of the score being scheduled
    rendered,     \* the voices the last mmlToWavUrl call scheduled offline
    last,         \* the last operation and its outcome
    mml,          \* the score text handed to mmlToNote
    parsed,       \* what mmlToNote made of it
    loads,        \* the loadSamples calls made so far
    fetched,      \* the fetches that completed, in the order they completed
    lookup,       \* a frequency map, a target frequency and what resolveBuffer returned
    pitch,        \* a note text and what noteToFrequency made of it
    wav           \* the offline context's settings, a rendered buffer and its WAV bytes

vars == <<now, nodes, activeNodes, masterGain, masters, timers, buffers, stops, score,
          rendered, last, mml, parsed, loads, fetched, lookup, pitch, wav>>
parserVars == <<mml, parsed>>
loaderVars == <<loads, fetched>>
resolverVars == <<lookup, pitch, wav>>

Undefined == -2000000
OrDefault(x, d) == IF x = Undefined THEN d ELSE x
DEFAULT_VOLUME_15 == 12

\* Variant: no note name is taken for a rest.
IsRestNever(note) == FALSE

RestText == <<"R", "E", "S", "T">>
IsRest(note) == ToUpperCase(Trim(note)) = RestText

\* The record of an operation: its name, what it threw, the voices created and the
\* registry before it ran, the clock it read, and the value it returned.
NoCall == [op |-> "none", threw |-> "none", created |-> 0, registry |-> <<>>,
           tracks |-> <<>>, value |-> FALSE]
Call(op, threw, tracks, value) ==
    [op |-> op, threw |-> threw, created |-> Len(nodes), registry |-> activeNodes,
     tracks |-> tracks, value |-> value]

(***************************************************************************)
(* registerPlaybackNode and the voice it tracks.                           *)
(***************************************************************************)
\* Variant: the voice is built but not added to the registry.
RegisterPlaybackNodeUntracked(e, voice) == [e EXCEPT !.nodes = Append(e.nodes, voice)]

RegisterPlaybackNode(e, voice) ==
    [e EXCEPT !.nodes = Append(e.nodes, voice),
              !.active = Append(e.active, Len(e.nodes) + 1)]

NewVoice(kind, frequency, resolved, timing, duration, volume, master) ==
    LET startTime == timing.contextTime + timing.delay
        stopTime == startTime + duration
    IN  [kind |-> kind, frequency |-> frequency, buffer |-> resolved.buffer,
         rateNum |-> resolved.rateNum, rateDen |-> resolved.rateDen,
         contextTime |-> timing.contextTime, delay |-> timing.delay,
         startAt |-> startTime, stopAt |-> stopTime,
         gain |-> ScheduleGainEnvelope(NewParam(Silent), startTime, duration,
                                       ConvertVolumeToGain(volume)),
         sourceConnected |-> TRUE, out |-> master,
         started |-> TRUE, listening |-> TRUE, disposed |-> FALSE, disposals |-> 0,
         calls |-> 0, faded |-> FALSE, ended |-> FALSE]

\* Variant: the fallback tone at a fixed 440 Hz.
PlaySineWaveFixedPitch(e, frequency, duration, volume, timing, master) ==
    RegisterPlaybackNode(e, NewVoice("sine", 44000, [NoBuffer EXCEPT !.rateNum = 1],
                                     timing, duration, volume, master))

\* oscillator.frequency.value takes finite numbers only: the assignment of
\* any other throws TypeError, before the voice is registered.
PlaySineWave(e, frequency, duration, volume, timing, master) ==
    IF ~IsFinite(frequency) THEN [e EXCEPT !.threw = "TypeError"]
    ELSE RegisterPlaybackNode(e, NewVoice("sine", frequency, [NoBuffer EXCEPT !.rateNum = 1],
                                          timing, duration, volume, master))

\* Variant: the delay is not checked.
PlaySampleErrorDelayUnchecked(options, timing) ==
    LET duration == OrDefault(options.duration, DEFAULT_DURATION_MS)
        volume == OrDefault(options.volume, DEFAULT_VOLUME_15)
    IN  IF ~IsFinite(duration) THEN "TypeError"
        ELSE IF duration <= 0 THEN "RangeError"
        ELSE IF ~IsFinite(volume) THEN "TypeError"
        ELSE IF volume < 0 \/ volume > VolumeScale THEN "RangeError"
        ELSE IF ~IsFinite(timing.contextTime) THEN "TypeError"
        ELSE IF timing.contextTime < 0 THEN "RangeError"
        ELSE IF NoteToFrequencyThrows(options.note) THEN "Error"
        ELSE "none"

\* The first failing check of playSample, or "none".
PlaySampleError(options, timing) ==
    LET duration == OrDefault(options.duration, DEFAULT_DURATION_MS)
        volume == OrDefault(options.volume, DEFAULT_VOLUME_15)
    IN  IF ~IsFinite(duration) THEN "TypeError"
        ELSE IF duration <= 0 THEN "RangeError"
        ELSE IF ~IsFinite(volume) THEN "TypeError"
        ELSE IF volume < 0 \/ volume > VolumeScale THEN "RangeError"
        ELSE IF ~IsFinite(timing.contextTime) \/ ~IsFinite(timing.delay) THEN "TypeError"
        ELSE IF timing.contextTime < 0 THEN "RangeError"
        ELSE IF timing.delay < 0 THEN "RangeError"
        ELSE IF NoteToFrequencyThrows(options.note) THEN "Error"
        ELSE "none"

\* playSample on the engine e = [nodes, active, threw]; store and master are read.
PlaySample(e, options, timing, store, master) ==
    LET duration == OrDefault(options.duration, DEFAULT_DURATION_MS)
        volume == OrDefault(options.volume, DEFAULT_VOLUME_15)
        error == PlaySampleError(options, timing)
        instrumentKey == ToLowerCase(Trim(options.name))
    IN  IF error # "none" THEN [e EXCEPT !.threw = error]
        ELSE LET targetFrequency == NoteToFrequency(options.note)
             IN  IF ~HasInstrument(store, instrumentKey) \/ Len(store[instrumentKey]) = 0
                 THEN PlaySineWave(e, targetFrequency, duration, volume, timing, master)
                 ELSE LET resolvedBuffer == ResolveBuffer(store[instrumentKey], targetFrequency)
                      IN  IF ~resolvedBuffer.found
                          THEN PlaySineWave(e, targetFrequency, duration, volume, timing, master)
                          ELSE RegisterPlaybackNode(e,
                                   NewVoice("buffer", targetFrequency, resolvedBuffer, timing,
                                            duration, volume, master))

(***************************************************************************)
(* playMml and buildPlaybackQueue.                                         *)
(***************************************************************************)
ValidDuration(durationMs) == IsFinite(durationMs) /\ durationMs # Undefined /\ durationMs > 0

\* Variant: a rest does not move the delay of the events after it.
RECURSIVE BuildPlaybackQueueRestsDropped(_, _, _)
BuildPlaybackQueueRestsDropped(track, baseContextTime, accumulatedDelay) ==
    IF track = <<>> THEN [threw |-> "none", queue |-> <<>>]
    ELSE LET note == Head(track)
             isRest == note.note = <<"R", "E", "S", "T">>
             rest == BuildPlaybackQueueRestsDropped(Tail(track), baseContextTime,
                         IF isRest THEN accumulatedDelay
                         ELSE accumulatedDelay + note.duration)
             item == [options |-> note,
                      timing |-> [contextTime |-> baseContextTime,
                                  delay |-> accumulatedDelay]]
         IN  IF note.duration <= 0 THEN [threw |-> "RangeError", queue |-> <<>>]
             ELSE IF rest.threw # "none" THEN rest
             ELSE IF isRest THEN rest
             ELSE [rest EXCEPT !.queue = <<item>> \o rest.queue]

\* Variant: the delay does not grow with the events before.
RECURSIVE BuildPlaybackQueueDelayHeld(_, _, _)
BuildPlaybackQueueDelayHeld(track, baseContextTime, accumulatedDelay) ==
    IF track = <<>> THEN [threw |-> "none", queue |-> <<>>]
    ELSE LET note == Head(track)
         IN  IF ~ValidDuration(note.duration) THEN [threw |-> "RangeError", queue |-> <<>>]
             ELSE LET rest == BuildPlaybackQueueDelayHeld(Tail(track), baseContextTime,
                                                          accumulatedDelay)
                      item == [options |-> note,
                               timing |-> [contextTime |-> baseContextTime,
                                           delay |-> accumulatedDelay]]
                  IN  IF rest.threw # "none" THEN rest
                      ELSE IF IsRest(note.note) THEN rest
                      ELSE [rest EXCEPT !.queue = <<item>> \o rest.queue]

RECURSIVE BuildPlaybackQueue(_, _, _)
BuildPlaybackQueue(track, baseContextTime, accumulatedDelay) ==
    IF track = <<>> THEN [threw |-> "none", queue |-> <<>>]
    ELSE LET note == Head(track)
         IN  IF ~ValidDuration(note.duration) THEN [threw |-> "RangeError", queue |-> <<>>]
             ELSE LET rest == BuildPlaybackQueue(Tail(track), baseContextTime,
                                                 accumulatedDelay + note.duration)
                      item == [options |-> note,
                               timing |-> [contextTime |-> baseContextTime,
                                           delay |-> accumulatedDelay]]
                  IN  IF rest.threw # "none" THEN rest
                      ELSE IF IsRest(note.note) THEN rest
                      ELSE [rest EXCEPT !.queue = <<item>> \o rest.queue]

RECURSIVE PlayQueue(_, _, _, _)
PlayQueue(e, queue, store, master) ==
    IF queue = <<>> \/ e.threw # "none" THEN e
    ELSE PlayQueue(PlaySample(e, Head(queue).options, Head(queue).timing, store, master),
                   Tail(queue), store, master)

PlayTrack(e, track, baseContextTime, store, master) ==
    IF track = <<>> THEN e
    ELSE LET built == BuildPlaybackQueue(track, baseContextTime, 0)
         IN  IF built.threw # "none" THEN [e EXCEPT !.threw = built.threw]
             ELSE PlayQueue(e, built.queue, store, master)

RECURSIVE PlayTracks(_, _, _, _, _)
PlayTracks(e, tracks, baseContextTime, store, master) ==
    IF tracks = <<>> \/ e.threw # "none" THEN e
    ELSE PlayTracks(PlayTrack(e, Head(tracks), baseContextTime, store, master),
                    Tail(tracks), baseContextTime, store, master)

PlayMml(e, tracks, currentTime, store, master) ==
    IF tracks = <<>> THEN e
    ELSE PlayTracks(e, tracks, currentTime + LOOKAHEAD_MS, store, master)

(***************************************************************************)
(* dispose, stopMml, its timers, the natural end of a voice, stopped.      *)
(***************************************************************************)
Remove(seq, x) == SelectSeq(seq, LAMBDA y : y # x)

\* AudioScheduledSourceNode.stop(when) inside try/catch: it throws on a source that
\* was never started (the throw is swallowed); a source that has not finished yet
\* stops at when, or at once if when has passed.
SourceStop(voice, when, currentTime) ==
    IF ~voice.started \/ currentTime >= voice.stopAt THEN voice
    ELSE [voice EXCEPT !.stopAt = Max(when, currentTime)]

\* Variant: dispose without its disposed flag.
DisposeVoiceUnguarded(voice, currentTime) ==
    [SourceStop(voice, 0, currentTime) EXCEPT
        !.disposed = TRUE, !.listening = FALSE, !.sourceConnected = FALSE,
        !.out = 0, !.disposals = Min(voice.disposals + 1, 2),
        !.calls = Min(voice.calls + 1, 2)]

\* trackedNode.dispose(); calls counts its invocations, disposals the times its
\* effects were applied.
DisposeVoice(voice, currentTime) ==
    IF voice.disposed THEN [voice EXCEPT !.calls = Min(voice.calls + 1, 2)]
    ELSE [SourceStop(voice, 0, currentTime) EXCEPT
             !.disposed = TRUE, !.listening = FALSE, !.sourceConnected = FALSE,
             !.out = 0, !.disposals = voice.disposals + 1, !.calls = voice.calls + 1]

\* Variant: dispose leaves the voice in the registry.
DisposeLeavesRegistry(e, n, currentTime) ==
    [e EXCEPT !.nodes[n] = DisposeVoice(e.nodes[n], currentTime)]

\* dispose() of voice n on the engine e = [nodes, active, ...].
Dispose(e, n, currentTime) ==
    [e EXCEPT !.nodes[n] = DisposeVoice(e.nodes[n], currentTime),
              !.active = IF e.nodes[n].disposed THEN e.active ELSE Remove(e.active, n)]

\* Variant: the fade is added to the automation already scheduled.
FadeParamKeepsAutomation(p, currentTime, fadeEnd) ==
    LinearRampToValueAtTime(SetValueAtTime(p, ValueAt(p, currentTime), currentTime),
                            Silent, fadeEnd)

FadeParam(p, currentTime, fadeEnd) ==
    LinearRampToValueAtTime(
        SetValueAtTime(CancelScheduledValues(p, currentTime), ValueAt(p, currentTime),
                       currentTime),
        Silent, fadeEnd)

StopVoice(voice, currentTime, fadeEnd) ==
    [SourceStop(voice, fadeEnd, currentTime) EXCEPT
        !.gain = FadeParam(voice.gain, currentTime, fadeEnd), !.faded = TRUE]

\* Variant: stop fades the voices and leaves them in the registry.
RECURSIVE StopNodesKeepsRegistry(_, _, _, _)
StopNodesKeepsRegistry(e, snapshot, currentTime, fadeEnd) ==
    IF snapshot = <<>> THEN e
    ELSE LET n == Head(snapshot)
         IN  StopNodesKeepsRegistry(
                 [e EXCEPT !.nodes[n] = StopVoice(e.nodes[n], currentTime, fadeEnd),
                           !.timers = Append(e.timers, [type |-> "dispose", ref |-> n])],
                 Tail(snapshot), currentTime, fadeEnd)

RECURSIVE StopNodes(_, _, _, _)
StopNodes(e, snapshot, currentTime, fadeEnd) ==
    IF snapshot = <<>> THEN e
    ELSE LET n == Head(snapshot)
         IN  StopNodes([e EXCEPT !.nodes[n] = StopVoice(e.nodes[n], currentTime, fadeEnd),
                                 !.active = Remove(e.active, n),
                                 !.timers = Append(e.timers, [type |-> "dispose", ref |-> n])],
                       Tail(snapshot), currentTime, fadeEnd)

\* Variant: stopped reads the oldest voice of the registry.
StoppedReadsFirst(registry, voices) ==
    IF Len(registry) = 0 THEN TRUE
    ELSE voices[registry[1]].ended

Stopped(registry, voices) ==
    IF Len(registry) = 0 THEN TRUE
    ELSE voices[registry[Len(registry)]].ended

NewMaster == [gain |-> NewParam(FullGain), connected |-> TRUE]

(***************************************************************************)
(* The sample store's writer (loadSingleSample).                           *)
(***************************************************************************)
\* Variant: a slot that holds a buffer keeps it.
StoreSampleKeepsFirst(store, key, frequency, buffer) ==
    LET slots == IF HasInstrument(store, key) THEN store[key] ELSE <<>>
        slot == [freq |-> frequency, buffer |-> buffer]
        written == IF HasSlot(slots, frequency) THEN slots ELSE Append(slots, slot)
    IN  [k \in DOMAIN store \cup {key} |-> IF k = key THEN written ELSE store[k]]

StoreSample(store, key, frequency, buffer) ==
    LET slots == IF HasInstrument(store, key) THEN store[key] ELSE <<>>
        slot == [freq |-> frequency, buffer |-> buffer]
        written == IF HasSlot(slots, frequency)
                   THEN [slots EXCEPT ![SlotIndex(slots, frequency)] = slot]
                   ELSE Append(slots, slot)
    IN  [k \in DOMAIN store \cup {key} |-> IF k = key THEN written ELSE store[k]]

\* The AudioBuffer decoded for item i of the c-th loadSamples call.
BufferOf(c, i) == 10 * c + i

\* Variant: the instrument name is the key as it was given.
LoadKeyAsGiven(file) == file.name

LoadKey(file) == ToLowerCase(Trim(file.name))

\* Variant: the first item whose note is rejected ends the batch.
ProceedLoadStopsAtFailure(call) ==
    IF call.index > Len(call.files)
    THEN [call EXCEPT !.status = "done",
                      !.value = IF call.isArray THEN call.results
                                ELSE <<call.results # <<>> /\ call.results[1]>>]
    ELSE IF NoteToFrequencyThrows(call.files[call.index].note)
    THEN [call EXCEPT !.results = Append(@, FALSE), !.index = @ + 1, !.status = "done",
                      !.value = IF call.isArray THEN Append(call.results, FALSE) ELSE <<FALSE>>]
    ELSE [call EXCEPT !.status = "fetching"]

\* loadSamples up to its next await on a fetch, or to its return: an item whose
\* note noteToFrequency rejects yields false at once.
RECURSIVE ProceedLoad(_)
ProceedLoad(call) ==
    IF call.index > Len(call.files)
    THEN [call EXCEPT !.status = "done",
                      !.value = IF call.isArray THEN call.results
                                ELSE <<call.results # <<>> /\ call.results[1]>>]
    ELSE IF NoteToFrequencyThrows(call.files[call.index].note)
    THEN ProceedLoad([call EXCEPT !.results = Append(@, FALSE), !.index = @ + 1])
    ELSE [call EXCEPT !.status = "fetching"]

NewLoad(source) ==
    [files |-> IF source.isArray THEN source.files ELSE <<source.files[1]>>,
     isArray |-> source.isArray, index |-> 1, results |-> <<>>, status |-> "running",
     value |-> <<>>]

\* Variant: the instrument key is made before the fetch is awaited.
LoadSingleSampleMakesKeyFirst(store, call, c, ok) ==
    LET file == call.files[call.index]
        keyed == [k \in DOMAIN store \cup {LoadKey(file)} |->
                     IF k \in DOMAIN store THEN store[k] ELSE <<>>]
    IN  [store |-> IF ok THEN StoreSample(store, LoadKey(file), NoteToFrequency(file.note),
                                          BufferOf(c, call.index))
                   ELSE keyed,
         call |-> ProceedLoad([call EXCEPT !.results = Append(@, ok), !.index = @ + 1])]

\* loadSingleSample after its fetch: the store and the call, given the outcome.
LoadSingleSample(store, call, c, ok) ==
    LET file == call.files[call.index]
    IN  [store |-> IF ok THEN StoreSample(store, LoadKey(file), NoteToFrequency(file.note),
                                          BufferOf(c, call.index))
                   ELSE store,
         call |-> ProceedLoad([call EXCEPT !.results = Append(@, ok), !.index = @ + 1])]

(***************************************************************************)
(* mmlToWavUrl: computeRenderDurationSeconds and scheduleTrack on the      *)
(* offline context.  o = [threw, voices, cursor].                          *)
(***************************************************************************)
RENDER_PADDING_MS == 50

RECURSIVE TrackDuration(_)
TrackDuration(track) ==
    IF track = <<>> THEN [threw |-> "none", total |-> 0]
    ELSE LET duration == Head(track).duration
             rest == TrackDuration(Tail(track))
         IN  IF duration = Undefined \/ ~IsFinite(duration) THEN [threw |-> "TypeError", total |-> 0]
             ELSE IF duration <= 0 THEN [threw |-> "RangeError", total |-> 0]
             ELSE IF rest.threw # "none" THEN rest
             ELSE [rest EXCEPT !.total = duration + rest.total]

RECURSIVE ComputeRenderDuration(_)
ComputeRenderDuration(tracks) ==
    IF tracks = <<>> THEN [threw |-> "none", total |-> 0]
    ELSE LET first == TrackDuration(Head(tracks))
             rest == ComputeRenderDuration(Tail(tracks))
         IN  IF first.threw # "none" THEN first
             ELSE IF rest.threw # "none" THEN rest
             ELSE [rest EXCEPT !.total = Max(first.total, rest.total)]

ResolveVolumeError(volume) ==
    IF volume = Undefined THEN "none"
    ELSE IF ~IsFinite(volume) THEN "TypeError"
    ELSE IF volume < 0 \/ volume > VolumeScale THEN "RangeError"
    ELSE "none"

OfflineVoice(kind, frequency, resolved, startTime, duration, gainValue) ==
    [kind |-> kind, frequency |-> frequency, buffer |-> resolved.buffer,
     rateNum |-> resolved.rateNum, rateDen |-> resolved.rateDen,
     startAt |-> startTime, stopAt |-> startTime + duration,
     gain |-> ScheduleGainEnvelope(NewParam(Silent), startTime, duration, gainValue)]

ScheduleSineWave(o, startTime, duration, frequency, gainValue) ==
    IF ~IsFinite(frequency) THEN [o EXCEPT !.threw = "TypeError"]
    ELSE [o EXCEPT !.voices = Append(o.voices,
             OfflineVoice("sine", frequency, [NoBuffer EXCEPT !.rateNum = 1], startTime,
                          duration, gainValue))]

ScheduleNote(o, note, store) ==
    LET duration == OrDefault(note.duration, DEFAULT_DURATION_MS)
        noteName == note.note
        startTime == o.cursor
        advanced == [o EXCEPT !.cursor = o.cursor + duration]
    IN  IF ~IsFinite(duration) \/ duration <= 0 THEN [o EXCEPT !.threw = "RangeError"]
        ELSE IF IsRest(noteName) \/ Len(noteName) = 0 THEN advanced
        ELSE IF ResolveVolumeError(note.volume) # "none"
             THEN [o EXCEPT !.threw = ResolveVolumeError(note.volume)]
        ELSE IF NoteToFrequencyThrows(noteName) THEN [o EXCEPT !.threw = "Error"]
        ELSE LET gainValue == ConvertVolumeToGain(OrDefault(note.volume, DEFAULT_VOLUME_15))
                 instrumentKey == ToLowerCase(Trim(note.name))
                 targetFrequency == NoteToFrequency(noteName)
                 resolved == IF HasInstrument(store, instrumentKey)
                                /\ Len(store[instrumentKey]) > 0
                             THEN ResolveBuffer(store[instrumentKey], targetFrequency)
                             ELSE NoBuffer
             IN  IF resolved.found
                 THEN [advanced EXCEPT !.voices = Append(o.voices,
                          OfflineVoice("buffer", targetFrequency, resolved, startTime,
                                       duration, gainValue))]
                 ELSE ScheduleSineWave(advanced, startTime, duration, targetFrequency,
                                       gainValue)

RECURSIVE ScheduleTrack(_, _, _)
ScheduleTrack(o, track, store) ==
    IF track = <<>> \/ o.threw # "none" THEN o
    ELSE ScheduleTrack(ScheduleNote(o, Head(track), store), Tail(track), store)

RECURSIVE ScheduleTracks(_, _, _)
ScheduleTracks(o, tracks, store) ==
    IF tracks = <<>> \/ o.threw # "none" THEN o
    ELSE ScheduleTracks(ScheduleTrack([o EXCEPT !.cursor = 0], Head(tracks), store),
                        Tail(tracks), store)

NoRender == [op |-> "none", threw |-> "none", silence |-> FALSE, lengthMs |-> 0,
             voices |-> <<>>]

MmlToWavUrl(tracks, store) ==
    LET playableTracks == SelectSeq(tracks, LAMBDA track : Len(track) > 0)
        renderDuration == ComputeRenderDuration(playableTracks)
        o == ScheduleTracks([threw |-> "none", voices |-> <<>>, cursor |-> 0],
                            playableTracks, store)
    IN  IF Len(playableTracks) = 0
        THEN [NoRender EXCEPT !.op = "render", !.silence = TRUE]
        ELSE IF renderDuration.threw # "none"
        THEN [NoRender EXCEPT !.op = "render", !.threw = renderDuration.threw]
        ELSE [op |-> "render", threw |-> o.threw, silence |-> FALSE,
              lengthMs |-> renderDuration.total + RENDER_PADDING_MS + DEFAULT_FADE_DURATION_MS,
              voices |-> o.voices]

(***************************************************************************)
(* The WAV container: renderSilence, the frame count of a render,          *)
(* encodeWav and clampSample.  A sample is a number of quarters, so that   *)
(* SampleScale stands for 1.0; an AudioBuffer is                           *)
(* [numberOfChannels, sampleRate, length, data], data[channel][frame].     *)
(***************************************************************************)
SampleScale == 4
DEFAULT_SAMPLE_RATE == 44100
DEFAULT_CHANNEL_COUNT == 2
WAV_HEADER_BYTES == 44
BYTES_PER_SAMPLE == 2
FMT_CHUNK_SIZE == 16
PCM_FORMAT == 1
NEGATIVE_FULL_SCALE == 32768
POSITIVE_FULL_SCALE == 32767

ResolveSampleRate(sampleRate) ==
    IF sampleRate # Undefined /\ IsFinite(sampleRate) /\ sampleRate > 0 THEN sampleRate
    ELSE DEFAULT_SAMPLE_RATE

ResolveChannelCount(channelCount) ==
    IF channelCount # Undefined /\ IsFinite(channelCount) /\ channelCount >= 1
    THEN channelCount
    ELSE DEFAULT_CHANNEL_COUNT

\* Math.max(1, Math.ceil(seconds * sampleRate)) for a length in ms.  The product is
\* one of doubles: where the exact product is a whole number the rounded one may
\* lie just above it, and the ceiling is then one frame more.
FrameCounts(lengthMs, sampleRate) ==
    LET product == lengthMs * sampleRate
        exact == Max(1, (product + 999) \div 1000)
    IN  IF product % 1000 = 0 THEN {exact, exact + 1} ELSE {exact}

\* Whether one of the voices sounds at the given frame of a render.
SoundsAtFrame(voices, frame, sampleRate) ==
    \E v \in 1..Len(voices) :
        /\ voices[v].startAt * sampleRate <= (frame - 1) * 1000
        /\ (frame - 1) * 1000 < voices[v].stopAt * sampleRate

\* OfflineAudioContext.startRendering(): silence where no voice sounds; what the
\* voices add up to elsewhere is the browser's, taken here as one level.
StartRendering(channelCount, frameCount, sampleRate, voices, level) ==
    [numberOfChannels |-> channelCount, sampleRate |-> sampleRate, length |-> frameCount,
     data |-> [channel \in 1..channelCount |->
                  [frame \in 1..frameCount |->
                      IF SoundsAtFrame(voices, frame, sampleRate) THEN level ELSE 0]]]

\* Variant: the silent render has no frame at all.
RenderSilenceNoFrame(context) ==
    StartRendering(ResolveChannelCount(context.channelCount), 0,
                   ResolveSampleRate(context.sampleRate), <<>>, 0)

RenderSilence(context) ==
    StartRendering(ResolveChannelCount(context.channelCount), 1,
                   ResolveSampleRate(context.sampleRate), <<>>, 0)

\* Variant: a sample is written as it is.
ClampSampleUnbounded(sample) ==
    IF ~IsFinite(sample) THEN 0 ELSE sample

ClampSample(sample) ==
    IF ~IsFinite(sample) THEN 0
    ELSE IF sample > SampleScale THEN SampleScale
    ELSE IF sample < -SampleScale THEN -SampleScale
    ELSE sample

\* Math.round of the fraction num / den: the nearest integer, halves upwards.
MathRound(num, den) == (2 * num + den) \div (2 * den)

\* Math.round(sample < 0 ? sample * 0x8000 : sample * 0x7fff)
Quantize(sample) ==
    MathRound(IF sample < 0 THEN sample * NEGATIVE_FULL_SCALE
              ELSE sample * POSITIVE_FULL_SCALE, SampleScale)

\* DataView.setUint32 / setUint16 / setInt16 with littleEndian = true: the bytes
\* of the value, lowest first.  The values written stay below 2^31.
Uint32Bytes(value) ==
    <<value % 256, (value \div 256) % 256, (value \div 65536) % 256,
      (value \div 16777216) % 256>>
Uint16Bytes(value) == <<value % 256, (value \div 256) % 256>>
Int16Bytes(value) == Uint16Bytes(value % 65536)

\* writeString: the char codes of 'RIFF', 'WAVE', 'fmt ' and 'data'.
RiffTag == <<82, 73, 70, 70>>
WaveTag == <<87, 65, 86, 69>>
FmtTag == <<102, 109, 116, 32>>
DataTag == <<100, 97, 116, 97>>

EncodeWav(buffer) ==
    LET channelCount == Max(1, buffer.numberOfChannels)
        sampleRate == buffer.sampleRate
        frameCount == buffer.length
        blockAlign == channelCount * BYTES_PER_SAMPLE
        byteRate == sampleRate * blockAlign
        dataLength == frameCount * blockAlign
        totalLength == WAV_HEADER_BYTES + dataLength
        Written(offset) ==
            LET position == offset \div BYTES_PER_SAMPLE
                index == position \div channelCount
                channel == position % channelCount
                sample == ClampSample(buffer.data[channel + 1][index + 1])
            IN  Int16Bytes(Quantize(sample))[(offset % BYTES_PER_SAMPLE) + 1]
    IN  RiffTag \o Uint32Bytes(totalLength - 8) \o WaveTag
        \o FmtTag \o Uint32Bytes(FMT_CHUNK_SIZE) \o Uint16Bytes(PCM_FORMAT)
        \o Uint16Bytes(channelCount) \o Uint32Bytes(sampleRate) \o Uint32Bytes(byteRate)
        \o Uint16Bytes(blockAlign) \o Uint16Bytes(BYTES_PER_SAMPLE * 8)
        \o DataTag \o Uint32Bytes(dataLength)
        \o [offset \in 1..dataLength |-> Written(offset - 1)]

(***************************************************************************)
(* Inputs.                                                                 *)
(***************************************************************************)
Piano == <<"p">>
NoteA4 == <<"A", "4">>
NoteC4 == <<"c", "4">>
NoTiming == [contextTime |-> Undefined, delay |-> Undefined]

Options(note, duration, volume) ==
    [note |-> note, volume |-> volume, duration |-> duration, name |-> Piano]

\* The (options, timing) pairs playSample is called with at time currentTime.
SampleCalls(currentTime) ==
    LET base == Options(NoteA4, 20, 12)
    IN  { <<base, NoTiming>>,
          <<Options(NoteC4, Undefined, Undefined), NoTiming>>,
          <<Options(NoteA4, 0, 12), NoTiming>>,
          <<Options(RestText, 20, 12), NoTiming>> }

EventNote == Options(NoteA4, 20, 12)
EventRest == Options(RestText, 10, 12)
EventBad == Options(NoteC4, 0, 12)

LiveScores ==
    { <<>>, << <<EventNote>> >>, << <<EventRest, EventNote>>, <<EventNote>> >>,
      << <<EventNote>>, <<EventBad>> >> }

\* Every score of at most MaxTracks tracks and MaxEvents events.
SeqsUpTo(S, n) == UNION {[1..k -> S] : k \in 0..n}
RECURSIVE CountEvents(_)
CountEvents(tracks) == IF tracks = <<>> THEN 0 ELSE Len(Head(tracks)) + CountEvents(Tail(tracks))
ScoreEvents == {EventNote, EventRest, EventBad}
RECURSIVE ScoresWithin(_, _)
ScoresWithin(tracksLeft, eventsLeft) ==
    IF tracksLeft = 0 THEN {<<>>}
    ELSE {<<>>} \cup
         UNION {{<<track>> \o rest : rest \in ScoresWithin(tracksLeft - 1, eventsLeft - Len(track))} :
                   track \in SeqsUpTo(ScoreEvents, eventsLeft)}
Scores == ScoresWithin(MaxTracks, MaxEvents)

\* The store after loadSamples({ name: 'p', note: 'A4' }) succeeded.
Stores == { <<>>, StoreSample(<<>>, Piano, NoteToFrequency(NoteA4), 1) }

RECURSIVE CountVoices(_)
CountVoices(track) ==
    IF track = <<>> THEN 0
    ELSE (IF IsRest(Head(track).note) THEN 0 ELSE 1) + CountVoices(Tail(track))
RECURSIVE CountAllVoices(_)
CountAllVoices(tracks) ==
    IF tracks = <<>> THEN 0 ELSE CountVoices(Head(tracks)) + CountAllVoices(Tail(tracks))

ClockSteps == {10}

NoParse == [op |-> "none", threw |-> "none", tracks |-> <<>>]
NoLookup == [op |-> "none", slots |-> <<>>, target |-> 0, result |-> NoBuffer]
NoPitch == [op |-> "none", note |-> <<>>, threw |-> "none", value |-> 0]
DefaultContext == [sampleRate |-> 44100, channelCount |-> 2]
NoAudioBuffer == [numberOfChannels |-> 0, sampleRate |-> 0, length |-> 0, data |-> <<>>]
NoWav == [op |-> "none", context |-> DefaultContext, threw |-> "none",
          buffer |-> NoAudioBuffer, bytes |-> <<>>]

(***************************************************************************)
(* Actions.                                                                *)
(***************************************************************************)
Init ==
    /\ now = 0
    /\ nodes = <<>>
    /\ activeNodes = <<>>
    /\ masterGain = 1
    /\ masters = <<NewMaster>>
    /\ timers = <<>>
    /\ buffers \in Stores
    /\ stops = 0
    /\ score = <<>>
    /\ rendered = NoRender
    /\ last = NoCall
    /\ mml = <<>>
    /\ parsed = NoParse
    /\ loads = <<>>
    /\ fetched = <<>>
    /\ lookup = NoLookup
    /\ pitch = NoPitch
    /\ wav = NoWav

Engine == [nodes |-> nodes, active |-> activeNodes, timers |-> timers, threw |-> "none"]
Quiet == [NoCall EXCEPT !.op = "other"]

\* MML.playSample(options, timing?)
DoPlaySample(options, timing) ==
    /\ Len(nodes) < MaxVoices
    /\ LET resolvedTiming == IF timing = NoTiming
                             THEN [contextTime |-> now, delay |-> 0]
                             ELSE timing
           e == PlaySample(Engine, options, resolvedTiming, buffers, masterGain)
       IN  /\ nodes' = e.nodes
           /\ activeNodes' = e.active
           /\ last' = Call("playSample", e.threw, <<>>, FALSE)
    /\ UNCHANGED <<parserVars, loaderVars, resolverVars>>
    /\ UNCHANGED <<now, masterGain, masters, timers, buffers, stops, score, rendered>>

\* playMml(tracks)
DoPlayMml(tracks) ==
    /\ Len(nodes) + CountAllVoices(tracks) <= MaxVoices
    /\ LET e == PlayMml(Engine, tracks, now, buffers, masterGain)
       IN  /\ nodes' = e.nodes
           /\ activeNodes' = e.active
           /\ last' = Call("playMml", e.threw, tracks, FALSE)
    /\ UNCHANGED <<parserVars, loaderVars, resolverVars>>
    /\ UNCHANGED <<now, masterGain, masters, timers, buffers, stops, score, rendered>>

\* MML.stop()
DoStop ==
    /\ stops < MaxStops
    /\ LET fadeEnd == now + MASTER_FADE_DURATION_MS
           e == StopNodes(Engine, activeNodes, now, fadeEnd)
       IN  /\ nodes' = e.nodes
           /\ activeNodes' = e.active
           /\ timers' = Append(e.timers, [type |-> "master", ref |-> masterGain])
           /\ masters' = [masters EXCEPT ![masterGain].gain = FadeParam(@, now, fadeEnd)]
    /\ stops' = stops + 1
    /\ last' = Call("stop", "none", <<>>, FALSE)
    /\ UNCHANGED <<parserVars, loaderVars, resolverVars>>
    /\ UNCHANGED <<now, masterGain, buffers, score, rendered>>

\* The next setTimeout callback of stopMml runs.
FireTimer ==
    /\ timers # <<>>
    /\ timers' = Tail(timers)
    /\ LET timer == Head(timers)
       IN  IF timer.type = "dispose"
           THEN LET e == Dispose(Engine, timer.ref, now)
                IN  /\ nodes' = e.nodes
                    /\ activeNodes' = e.active
                    /\ UNCHANGED <<masters, masterGain>>
           ELSE /\ masters' = Append([masters EXCEPT ![timer.ref].connected = FALSE],
                                     NewMaster)
                /\ masterGain' = Len(masters) + 1
                /\ UNCHANGED <<nodes, activeNodes>>
    /\ last' = Quiet
    /\ UNCHANGED <<parserVars, loaderVars, resolverVars>>
    /\ UNCHANGED <<now, buffers, stops, score, rendered>>

\* The 'ended' event of a voice's source reaches handleEnded.
Ended(n) ==
    /\ nodes[n].listening
    /\ now >= nodes[n].stopAt
    /\ LET e == Dispose(Engine, n, now)
       IN  /\ nodes' = e.nodes
           /\ activeNodes' = e.active
    /\ last' = Quiet
    /\ UNCHANGED <<parserVars, loaderVars, resolverVars>>
    /\ UNCHANGED <<now, masterGain, masters, timers, buffers, stops, score, rendered>>

\* The audio backend reports a finished voice's gain stage as ended.
ReportEnded(n) ==
    /\ ~nodes[n].ended
    /\ \E i \in 1..Len(activeNodes) : activeNodes[i] = n
    /\ now >= nodes[n].stopAt
    /\ nodes' = [nodes EXCEPT ![n].ended = TRUE]
    /\ last' = Quiet
    /\ UNCHANGED <<parserVars, loaderVars, resolverVars>>
    /\ UNCHANGED <<now, activeNodes, masterGain, masters, timers, buffers, stops, score,
                   rendered>>

\* The audio clock advances.
Advance(d) ==
    /\ now + d <= MaxTime
    /\ now' = now + d
    /\ last' = Quiet
    /\ UNCHANGED <<parserVars, loaderVars, resolverVars>>
    /\ UNCHANGED <<nodes, activeNodes, masterGain, masters, timers, buffers, stops, score,
                   rendered>>

\* playMml on the score under study.
PlayScore ==
    /\ Len(nodes) <= 1
    /\ LET e == PlayMml(Engine, score, now, buffers, masterGain)
       IN  /\ nodes' = e.nodes
           /\ activeNodes' = e.active
           /\ last' = Call("playMml", e.threw, score, FALSE)
    /\ UNCHANGED <<parserVars, loaderVars, resolverVars>>
    /\ UNCHANGED <<now, masterGain, masters, timers, buffers, stops, score, rendered>>

\* mmlToWavUrl on the score under study.
RenderScore ==
    /\ rendered' = MmlToWavUrl(score, buffers)
    /\ last' = Quiet
    /\ UNCHANGED <<parserVars, loaderVars, resolverVars>>
    /\ UNCHANGED <<now, nodes, activeNodes, masterGain, masters, timers, buffers, stops,
                   score>>

Next ==
    \/ \E call \in SampleCalls(now) : DoPlaySample(call[1], call[2])
    \/ \E tracks \in LiveScores : DoPlayMml(tracks)
    \/ DoStop
    \/ FireTimer
    \/ \E n \in 1..Len(nodes) : Ended(n)
    \/ \E n \in 1..Len(nodes) : ReportEnded(n)
    \/ \E d \in ClockSteps : Advance(d)

Spec == Init /\ [][Next]_vars

\* The event loop runs every pending setTimeout callback.
FairSpec == Spec /\ WF_vars(FireTimer)

(***************************************************************************)
(* Playback left to end by itself: voices are activated by playMml and     *)
(* playSample, stop() is never called, the clock runs until every voice    *)
(* has reached its stop time, and the 'ended' events are delivered.        *)
(***************************************************************************)
\* The clock's last instant: every voice activated ends by then.
LastInstant == LOOKAHEAD_MS + (MaxEvents * DEFAULT_FADE_DURATION_MS * 2)
EndSteps == {DEFAULT_FADE_DURATION_MS, 2 * DEFAULT_FADE_DURATION_MS}
VoicesEndInTime == \A n \in 1..Len(nodes) : nodes[n].stopAt <= LastInstant

InitEnd ==
    /\ now = 0
    /\ nodes = <<>>
    /\ activeNodes = <<>>
    /\ masterGain = 1
    /\ masters = <<NewMaster>>
    /\ timers = <<>>
    /\ buffers \in Stores
    /\ stops = 0
    /\ score \in LiveScores
    /\ rendered = NoRender
    /\ last = NoCall
    /\ mml = <<>>
    /\ parsed = NoParse
    /\ loads = <<>>
    /\ fetched = <<>>
    /\ lookup = NoLookup
    /\ pitch = NoPitch
    /\ wav = NoWav

\* playMml on the score, early enough for its voices to end
PlayToEnd == PlayScore /\ VoicesEndInTime'

\* playSample, early enough for its voice to end
SampleToEnd(options, timing) == DoPlaySample(options, timing) /\ VoicesEndInTime'

\* The audio clock advances.
Tick(d) ==
    /\ now + d <= LastInstant
    /\ now' = now + d
    /\ last' = Quiet
    /\ UNCHANGED <<parserVars, loaderVars, resolverVars>>
    /\ UNCHANGED <<nodes, activeNodes, masterGain, masters, timers, buffers, stops, score,
                   rendered>>

NextEnd ==
    \/ PlayToEnd
    \/ \E call \in SampleCalls(now) : SampleToEnd(call[1], call[2])
    \/ \E n \in 1..Len(nodes) : Ended(n)
    \/ \E n \in 1..Len(nodes) : ReportEnded(n)
    \/ \E d \in EndSteps : Tick(d)

SpecEnd == InitEnd /\ [][NextEnd]_vars

\* The audio clock keeps running and the 'ended' event of a source that has
\* reached its stop time is delivered.
FairSpecEnd ==
    /\ SpecEnd
    /\ WF_vars(\E d \in EndSteps : Tick(d))
    /\ WF_vars(\E n \in 1..Len(nodes) : Ended(n))

(***************************************************************************)
(* The scheduler alone: a score is drawn, then played live and rendered    *)
(* offline at any time of the clock.                                       *)
(***************************************************************************)
InitSchedule ==
    /\ now = 0
    /\ nodes = <<>>
    /\ activeNodes = <<>>
    /\ masterGain = 1
    /\ masters = <<NewMaster>>
    /\ timers = <<>>
    /\ buffers \in Stores
    /\ stops = 0
    /\ score \in Scores
    /\ rendered = NoRender
    /\ last = NoCall
    /\ mml = <<>>
    /\ parsed = NoParse
    /\ loads = <<>>
    /\ fetched = <<>>
    /\ lookup = NoLookup
    /\ pitch = NoPitch
    /\ wav = NoWav

NextSchedule ==
    \/ PlayScore
    \/ RenderScore
    \/ \E d \in ClockSteps : Advance(d)

SpecSchedule == InitSchedule /\ [][NextSchedule]_vars

(***************************************************************************)
(* The parser with the scheduler behind it: a score text is drawn, parsed  *)
(* by mmlToNote, and the tracks are handed to playMml, as MML.play does.   *)
(***************************************************************************)
MaxWords == 3

ScoreWords ==
    { <<"T", "9", "9", "9">>, <<"T", "1">>, <<"O", "9">>, <<"O", "0">>, <<"V", "0">>,
      <<"V", "9", "9">>, <<"L", "0">>, <<"L", "9", "9">>, <<"L">>, <<">">>, <<"<">>,
      <<"c">>, <<"b", "-", "8", ".">>, <<"r">>, <<",">>, <<" ">> }

RECURSIVE Concat(_)
Concat(words) == IF words = <<>> THEN <<>> ELSE Head(words) \o Concat(Tail(words))

Bodies(n) == {Concat(words) : words \in SeqsUpTo(ScoreWords, n)}

\* 'MML@ T120 O4 V12 L4 cdefgab>c;'
ReadmeScore ==
    <<"M", "M", "L", "@", " ", "T", "1", "2", "0", " ", "O", "4", " ", "V", "1", "2", " ",
      "L", "4", " ", "c", "d", "e", "f", "g", "a", "b", ">", "c", ";">>

\* 'MML@ T96 cdef, O3 V10 g4e4c4;'
TwoStaffScore ==
    <<"M", "M", "L", "@", " ", "T", "9", "6", " ", "c", "d", "e", "f", ",", " ", "O", "3", " ",
      "V", "1", "0", " ", "g", "4", "e", "4", "c", "4", ";">>

ScoreTexts ==
    {MML_PREFIX \o body \o MML_SUFFIX : body \in Bodies(MaxWords)}
    \cup {<<"m", "m", "l", "@">> \o body \o <<";", " ">> : body \in Bodies(1)}
    \cup {body \o MML_SUFFIX : body \in Bodies(1)}
    \cup {<<" ">> \o MML_PREFIX \o body : body \in Bodies(1)}
    \cup {<<>>, <<" ", "\n", "\t">>, ReadmeScore, TwoStaffScore}

\* A change of time unit: every duration of the tracks as a whole number of
\* ticks, a tick being 1 / TickScale(tracks) ms.
Lcm(a, b) == (a \div Gcd(a, b)) * b
RECURSIVE TrackScale(_)
TrackScale(track) == IF track = <<>> THEN 1 ELSE Lcm(Head(track).duration.den, TrackScale(Tail(track)))
RECURSIVE TickScale(_)
TickScale(tracks) == IF tracks = <<>> THEN 1 ELSE Lcm(TrackScale(Head(tracks)), TickScale(Tail(tracks)))
InTicks(tracks) ==
    [t \in 1..Len(tracks) |->
        [i \in 1..Len(tracks[t]) |->
            [tracks[t][i] EXCEPT !.duration = @.num * (TickScale(tracks) \div @.den)]]]

InitParse ==
    /\ now = 0
    /\ nodes = <<>>
    /\ activeNodes = <<>>
    /\ masterGain = 1
    /\ masters = <<NewMaster>>
    /\ timers = <<>>
    /\ buffers = <<>>
    /\ stops = 0
    /\ score = <<>>
    /\ rendered = NoRender
    /\ last = NoCall
    /\ mml \in ScoreTexts
    /\ parsed = NoParse
    /\ loads = <<>>
    /\ fetched = <<>>
    /\ lookup = NoLookup
    /\ pitch = NoPitch
    /\ wav = NoWav

\* mmlToNote(mml, name)
ParseScore ==
    /\ parsed.op = "none"
    /\ parsed' = MmlToNote(mml, Piano)
    /\ last' = Quiet
    /\ UNCHANGED <<now, nodes, activeNodes, masterGain, masters, timers, buffers, stops, score,
                   rendered, mml, loaderVars, resolverVars>>

\* playMml(tracks) on the parsed tracks
PlayParsed ==
    /\ parsed.op = "parse" /\ parsed.threw = "none"
    /\ nodes = <<>>
    /\ LET tracks == InTicks(parsed.tracks)
           e == PlayMml(Engine, tracks, now, buffers, masterGain)
       IN  /\ nodes' = e.nodes
           /\ activeNodes' = e.active
           /\ last' = Call("playMml", e.threw, tracks, FALSE)
    /\ UNCHANGED <<now, masterGain, masters, timers, buffers, stops, score, rendered, mml,
                   parsed, loaderVars, resolverVars>>

NextParse == ParseScore \/ PlayParsed

SpecParse == InitParse /\ [][NextParse]_vars

(***************************************************************************)
(* The sample store with its loads in flight: loadSamples calls start,     *)
(* their fetches complete in any order with any outcome, and playSample,   *)
(* playMml, mmlToWavUrl and stop run in between.                           *)
(***************************************************************************)
MaxLoads == 2

File(name, note) == [name |-> name, note |-> note]
FileA4 == File(<<" ", "P">>, NoteA4)
FileC4 == File(Piano, NoteC4)
FileBad == File(Piano, <<"H", "4">>)

LoadSources ==
    { [isArray |-> FALSE, files |-> <<FileA4>>],
      [isArray |-> FALSE, files |-> <<FileC4>>],
      [isArray |-> TRUE, files |-> <<FileBad, FileA4>>],
      [isArray |-> TRUE, files |-> <<FileA4, FileA4>>] }

Organ == <<"o">>
LoadedNotes ==
    { Options(NoteA4, 20, 12), [Options(NoteA4, 20, 12) EXCEPT !.name = Organ] }
LoadedScores == { << <<EventNote, EventRest>> >> }

InitLoad ==
    /\ now = 0
    /\ nodes = <<>>
    /\ activeNodes = <<>>
    /\ masterGain = 1
    /\ masters = <<NewMaster>>
    /\ timers = <<>>
    /\ buffers = <<>>
    /\ stops = 0
    /\ score = <<>>
    /\ rendered = NoRender
    /\ last = NoCall
    /\ mml = <<>>
    /\ parsed = NoParse
    /\ loads = <<>>
    /\ fetched = <<>>
    /\ lookup = NoLookup
    /\ pitch = NoPitch
    /\ wav = NoWav

\* MML.loadSamples(source), up to its first await on a fetch
LoadSamples(source) ==
    /\ Len(loads) < MaxLoads
    /\ loads' = Append(loads, ProceedLoad(NewLoad(source)))
    /\ last' = Call("loadSamples", "none", <<>>, FALSE)
    /\ UNCHANGED <<now, nodes, activeNodes, masterGain, masters, timers, buffers, stops, score,
                   rendered, fetched, parserVars, resolverVars>>

\* The fetch and decode of the item call c waits for end, well or not.
FetchDone(c, ok) ==
    /\ loads[c].status = "fetching"
    /\ LET done == LoadSingleSample(buffers, loads[c], c, ok)
           file == loads[c].files[loads[c].index]
       IN  /\ buffers' = done.store
           /\ loads' = [loads EXCEPT ![c] = done.call]
           /\ fetched' = Append(fetched, [call |-> c, item |-> loads[c].index, ok |-> ok,
                                          name |-> file.name, note |-> file.note])
    /\ last' = Call("fetch", "none", <<>>, FALSE)
    /\ UNCHANGED <<now, nodes, activeNodes, masterGain, masters, timers, stops, score, rendered,
                   parserVars, resolverVars>>

\* MML.playSample(options)
PlayLoaded(options) ==
    /\ Len(nodes) < MaxVoices
    /\ LET e == PlaySample(Engine, options, [contextTime |-> now, delay |-> 0], buffers,
                           masterGain)
       IN  /\ nodes' = e.nodes
           /\ activeNodes' = e.active
           /\ last' = Call("playSample", e.threw, << <<options>> >>, FALSE)
    /\ UNCHANGED <<now, masterGain, masters, timers, buffers, stops, score, rendered,
                   parserVars, loaderVars, resolverVars>>

\* mmlToWavUrl(tracks)
RenderLoaded(tracks) ==
    /\ rendered.op = "none"
    /\ rendered' = MmlToWavUrl(tracks, buffers)
    /\ score' = tracks
    /\ last' = Call("render", "none", tracks, FALSE)
    /\ UNCHANGED <<now, nodes, activeNodes, masterGain, masters, timers, buffers, stops,
                   parserVars, loaderVars, resolverVars>>

NextLoad ==
    \/ \E source \in LoadSources : LoadSamples(source)
    \/ \E c \in 1..Len(loads) : \E ok \in BOOLEAN : FetchDone(c, ok)
    \/ \E options \in LoadedNotes : nodes = <<>> /\ PlayLoaded(options)
    \/ \E tracks \in LoadedScores : nodes = <<>> /\ DoPlayMml(tracks)
    \/ \E tracks \in LoadedScores : RenderLoaded(tracks)
    \/ stops = 0 /\ DoStop

SpecLoad == InitLoad /\ [][NextLoad]_vars

(***************************************************************************)
(* The choice between a stored sample and the sine tone: samples are       *)
(* loaded for pitches within and beyond the range of a double, and notes   *)
(* of both kinds are played and rendered for an instrument with and        *)
(* without samples.                                                        *)
(***************************************************************************)
NoteC1013 == <<"c", "1", "0", "1", "3">>
NoteB9 == <<"b", "9">>
NoteCFlat0 == <<"c", "b", "0">>
FileC1013 == File(Piano, NoteC1013)
FileB9 == File(Piano, NoteB9)

PitchedSources ==
    { [isArray |-> FALSE, files |-> <<FileA4>>],
      [isArray |-> FALSE, files |-> <<FileC1013>>],
      [isArray |-> TRUE, files |-> <<FileC1013, FileB9>>] }

PitchedNotes ==
    {[Options(note, 20, 12) EXCEPT !.name = name] :
        note \in {NoteA4, NoteB9, NoteCFlat0, NoteC1013}, name \in {Piano, Organ}}
PitchedScores ==
    {<< <<options>> >> : options \in PitchedNotes}
    \cup {<< <<Options(NoteCFlat0, 20, 12), EventRest>>, <<Options(NoteB9, 20, 12)>> >>}

NextPitched ==
    \/ \E source \in PitchedSources : LoadSamples(source)
    \/ \E c \in 1..Len(loads) : \E ok \in BOOLEAN : FetchDone(c, ok)
    \/ \E options \in PitchedNotes : nodes = <<>> /\ PlayLoaded(options)
    \/ \E tracks \in PitchedScores : RenderLoaded(tracks)

SpecPitched == InitLoad /\ [][NextPitched]_vars

(***************************************************************************)
(* resolveBuffer on its own: a frequency map is filled one write at a      *)
(* time, as loadSingleSample fills it, and looked up at a target.          *)
(***************************************************************************)
MaxSlots == 3
StoredFrequencies == {22000, 44000, 46616, 88000}
TargetFrequencies == StoredFrequencies \cup {33000, 49388}

InitResolve ==
    /\ now = 0
    /\ nodes = <<>>
    /\ activeNodes = <<>>
    /\ masterGain = 1
    /\ masters = <<NewMaster>>
    /\ timers = <<>>
    /\ buffers = <<>>
    /\ stops = 0
    /\ score = <<>>
    /\ rendered = NoRender
    /\ last = NoCall
    /\ mml = <<>>
    /\ parsed = NoParse
    /\ loads = <<>>
    /\ fetched = <<>>
    /\ lookup = NoLookup
    /\ pitch = NoPitch
    /\ wav = NoWav

\* this.buffers[instrumentKey][frequency] = audioBuffer
WriteSlot(frequency) ==
    /\ Len(lookup.slots) < MaxSlots \/ HasSlot(lookup.slots, frequency)
    /\ lookup' = [op |-> "store",
                  slots |-> StoreSample([k \in {Piano} |-> lookup.slots], Piano, frequency,
                                        Len(lookup.slots) + 1)[Piano],
                  target |-> 0,
                  result |-> NoBuffer]
    /\ UNCHANGED <<now, nodes, activeNodes, masterGain, masters, timers, buffers, stops, score,
                   rendered, last, parserVars, loaderVars, pitch, wav>>

\* resolveBuffer(buffers, targetFrequency)
Resolve(targetFrequency) ==
    /\ lookup' = [op |-> "resolve",
                  slots |-> lookup.slots,
                  target |-> targetFrequency,
                  result |-> ResolveBuffer(lookup.slots, targetFrequency)]
    /\ UNCHANGED <<now, nodes, activeNodes, masterGain, masters, timers, buffers, stops, score,
                   rendered, last, parserVars, loaderVars, pitch, wav>>

NextResolve ==
    \/ \E frequency \in StoredFrequencies : WriteSlot(frequency)
    \/ \E targetFrequency \in TargetFrequencies : Resolve(targetFrequency)

SpecResolve == InitResolve /\ [][NextResolve]_vars

\* The same with frequencies written around C4 (440 Hz): 1 Hz and 0.5 Hz below
\* and above it, so that two of them can be equally near the note looked up.
TiedFrequencies == {43900, 43950, 44050, 44100, 46616}
TiedTargets == {NoteToFrequency(NoteC4), NoteToFrequency(<<"d", "4">>)}

NextTie ==
    \/ \E frequency \in TiedFrequencies : WriteSlot(frequency)
    \/ \E targetFrequency \in TiedTargets : Resolve(targetFrequency)

SpecTie == InitResolve /\ [][NextTie]_vars

\* The same with frequencies of either sign and 0 in the map, and targets of
\* either sign, 0 and a value that is not finite.
SignedFrequencies == {-44000, -22000, 0, 22000, 44000}
SignedTargets == SignedFrequencies \cup {-33000, 33000, 46616, NotFinite}

NextRate ==
    \/ \E frequency \in SignedFrequencies : WriteSlot(frequency)
    \/ \E targetFrequency \in SignedTargets : Resolve(targetFrequency)

SpecRate == InitResolve /\ [][NextRate]_vars

(***************************************************************************)
(* noteToFrequency on its own: a note text is given and converted.         *)
(***************************************************************************)
NoteNames == {"c", "d", "e", "f", "g", "a", "b", "C", "D", "E", "F", "G", "A", "B", "h"}
NoteSigns == {<<>>, <<"#">>, <<"b">>, <<"B">>, <<"+">>, <<"-">>}
NoteOctaves == {<<>>} \cup {<<Digits[d]>> : d \in 1..Len(Digits)}
NoteTexts ==
    {<<name>> \o sign \o octave : name \in NoteNames, sign \in NoteSigns, octave \in NoteOctaves}
    \cup {<<" ">> \o <<name>> \o sign \o <<"4", " ">> : name \in NoteNames, sign \in NoteSigns}
    \cup {<<>>, <<"4">>, <<"a", " ", "4">>, <<"a", "4", "x">>, <<"R", "E", "S", "T">>}

InitNote ==
    /\ now = 0
    /\ nodes = <<>>
    /\ activeNodes = <<>>
    /\ masterGain = 1
    /\ masters = <<NewMaster>>
    /\ timers = <<>>
    /\ buffers = <<>>
    /\ stops = 0
    /\ score = <<>>
    /\ rendered = NoRender
    /\ last = NoCall
    /\ mml = <<>>
    /\ parsed = NoParse
    /\ loads = <<>>
    /\ fetched = <<>>
    /\ lookup = NoLookup
    /\ pitch \in {[NoPitch EXCEPT !.note = note] : note \in NoteTexts}
    /\ wav = NoWav

\* noteToFrequency(note)
ConvertNote ==
    /\ pitch.op = "none"
    /\ pitch' = IF NoteToFrequencyThrows(pitch.note)
                THEN [pitch EXCEPT !.op = "convert", !.threw = "Error"]
                ELSE [pitch EXCEPT !.op = "convert", !.value = NoteToFrequency(pitch.note)]
    /\ UNCHANGED <<now, nodes, activeNodes, masterGain, masters, timers, buffers, stops, score,
                   rendered, last, parserVars, loaderVars, lookup, wav>>

NextNote == ConvertNote

SpecNote == InitNote /\ [][NextNote]_vars

(***************************************************************************)
(* playSample on its own: one call with options and a timing of every      *)
(* kind, on a player that may hold a sample and may have a voice playing.  *)
(***************************************************************************)
CheckedDurations == {Undefined, NotFinite, -5, 0, 20}
CheckedVolumes == {Undefined, NotFinite, -1, 0, 12, 16}
CheckedNotes == {NoteA4, <<"c", "+", "4">>, RestText}
CheckedTimes == {NotFinite, -1, 0, 5}
CheckedTimings ==
    {NoTiming} \cup [contextTime : CheckedTimes, delay : CheckedTimes]

InitSample ==
    /\ now = 0
    /\ nodes = <<>>
    /\ activeNodes = <<>>
    /\ masterGain = 1
    /\ masters = <<NewMaster>>
    /\ timers = <<>>
    /\ buffers \in Stores
    /\ stops = 0
    /\ score = << <<EventNote>> >>
    /\ rendered = NoRender
    /\ last = NoCall
    /\ mml = <<>>
    /\ parsed = NoParse
    /\ loads = <<>>
    /\ fetched = <<>>
    /\ lookup = NoLookup
    /\ pitch = NoPitch
    /\ wav = NoWav

\* MML.playSample(options) of the note held in score, before the call that is
\* looked at
PlayBefore ==
    /\ nodes = <<>> /\ last.op = "none"
    /\ LET e == PlaySample(Engine, score[1][1], [contextTime |-> now, delay |-> 0],
                           buffers, masterGain)
       IN  /\ nodes' = e.nodes
           /\ activeNodes' = e.active
    /\ last' = Quiet
    /\ UNCHANGED <<now, masterGain, masters, timers, buffers, stops, score, rendered,
                   parserVars, loaderVars, resolverVars>>

\* MML.playSample(options, timing?)
PlayChecked(options, timing) ==
    /\ last.op # "playSample"
    /\ LET resolvedTiming == IF timing = NoTiming
                             THEN [contextTime |-> now, delay |-> 0]
                             ELSE timing
           e == PlaySample(Engine, options, resolvedTiming, buffers, masterGain)
       IN  /\ nodes' = e.nodes
           /\ activeNodes' = e.active
           /\ last' = Call("playSample", e.threw,
                           << <<[options |-> options, timing |-> resolvedTiming]>> >>, FALSE)
    /\ UNCHANGED <<now, masterGain, masters, timers, buffers, stops, score, rendered,
                   parserVars, loaderVars, resolverVars>>

NextSample ==
    \/ PlayBefore
    \/ \E note \in CheckedNotes : \E duration \in CheckedDurations :
          \E volume \in CheckedVolumes : \E timing \in CheckedTimings :
              PlayChecked(Options(note, duration, volume), timing)

SpecSample == InitSample /\ [][NextSample]_vars

(***************************************************************************)
(* Live playback and the offline renderer side by side: a score is drawn,  *)
(* then played with playMml and rendered with mmlToWavUrl over the same    *)
(* store.                                                                  *)
(***************************************************************************)
EventLow == Options(NoteC4, 10, Undefined)
EventBlank == Options(<<>>, 10, 12)
SideBySideEvents == {EventNote, EventRest, EventBad, EventLow, EventBlank}

RECURSIVE ScoresOver(_, _, _)
ScoresOver(events, tracksLeft, eventsLeft) ==
    IF tracksLeft = 0 THEN {<<>>}
    ELSE {<<>>} \cup
         UNION {{<<track>> \o rest :
                    rest \in ScoresOver(events, tracksLeft - 1, eventsLeft - Len(track))} :
                   track \in SeqsUpTo(events, eventsLeft)}

InitSideBySide ==
    /\ now = 0
    /\ nodes = <<>>
    /\ activeNodes = <<>>
    /\ masterGain = 1
    /\ masters = <<NewMaster>>
    /\ timers = <<>>
    /\ buffers \in Stores
    /\ stops = 0
    /\ score \in ScoresOver(SideBySideEvents, MaxTracks, MaxEvents)
    /\ rendered = NoRender
    /\ last = NoCall
    /\ mml = <<>>
    /\ parsed = NoParse
    /\ loads = <<>>
    /\ fetched = <<>>
    /\ lookup = NoLookup
    /\ pitch = NoPitch
    /\ wav = NoWav

\* The clock moves before anything was played.
Wait(d) ==
    /\ nodes = <<>>
    /\ Advance(d)

\* playMml on the score, once.
PlayOnce ==
    /\ nodes = <<>>
    /\ last.op # "playMml"
    /\ PlayScore

NextSideBySide ==
    \/ PlayOnce
    \/ RenderScore
    \/ \E d \in ClockSteps : Wait(d)

SpecSideBySide == InitSideBySide /\ [][NextSideBySide]_vars

(***************************************************************************)
(* The renderer's output: a score is rendered with mmlToWavUrl on a        *)
(* context of some sample rate and channel count, or an audio buffer is    *)
(* handed to audioBufferToObjectUrl, and the WAV bytes are kept.           *)
(***************************************************************************)
MaxFrames == 2        \* frames of an encoded buffer
Samples == {NotFinite, -5, -1, 0, 1, 5}
Levels == {-5, 1}
SampleRates == {8000, DEFAULT_SAMPLE_RATE}
ChannelCounts == {1, 2}
Contexts ==
    {[sampleRate |-> 8000, channelCount |-> c] : c \in ChannelCounts}
        \cup {[sampleRate |-> Undefined, channelCount |-> Undefined]}

AudioBuffers ==
    UNION {{[numberOfChannels |-> c, sampleRate |-> r, length |-> n, data |-> d] :
                d \in [1..c -> [1..n -> Samples]]} :
              <<c, r, n>> \in ChannelCounts \X SampleRates \X (0..MaxFrames)}

RestBad == Options(RestText, 0, 12)
WavScores ==
    { <<>>, << <<>> >>, << <<>>, <<>> >>,
      << <<EventRest>> >>, << <<>>, <<EventRest>> >>,
      << <<EventRest, EventRest>>, <<EventRest>> >>,
      << <<EventRest>>, <<EventRest>> >>, << <<EventNote>> >>,
      << <<EventRest, EventNote>> >>, << <<EventNote>>, <<EventBad>> >>,
      << <<RestBad>> >> }

InitWav ==
    /\ now = 0
    /\ nodes = <<>>
    /\ activeNodes = <<>>
    /\ masterGain = 1
    /\ masters = <<NewMaster>>
    /\ timers = <<>>
    /\ buffers \in Stores
    /\ stops = 0
    /\ score \in WavScores
    /\ rendered = NoRender
    /\ last = NoCall
    /\ mml = <<>>
    /\ parsed = NoParse
    /\ loads = <<>>
    /\ fetched = <<>>
    /\ lookup = NoLookup
    /\ pitch = NoPitch
    /\ wav \in {[NoWav EXCEPT !.context = context] : context \in Contexts}

\* audioBufferToObjectUrl(buffer), where URL.createObjectURL exists.
AudioBufferToObjectUrl(op, buffer) ==
    wav' = [wav EXCEPT !.op = op, !.threw = "none", !.buffer = buffer,
                       !.bytes = EncodeWav(buffer)]

\* mmlToWavUrl(score): the render and its container.
RenderToWav ==
    /\ wav.op = "none"
    /\ LET r == MmlToWavUrl(score, buffers)
           sampleRate == ResolveSampleRate(wav.context.sampleRate)
           channelCount == ResolveChannelCount(wav.context.channelCount)
       IN  /\ rendered' = r
           /\ IF r.threw # "none"
              THEN wav' = [wav EXCEPT !.op = "render", !.threw = r.threw]
              ELSE IF r.silence
              THEN AudioBufferToObjectUrl("render", RenderSilence(wav.context))
              ELSE \E frameCount \in FrameCounts(r.lengthMs, sampleRate) :
                      \E level \in Levels :
                          AudioBufferToObjectUrl("render",
                              StartRendering(channelCount, frameCount, sampleRate,
                                             r.voices, level))
    /\ last' = Quiet
    /\ UNCHANGED <<parserVars, loaderVars, lookup, pitch>>
    /\ UNCHANGED <<now, nodes, activeNodes, masterGain, masters, timers, buffers, stops,
                   score>>

NextWav == RenderToWav

SpecWav == InitWav /\ [][NextWav]_vars

(***************************************************************************)
(* The encoder alone: an audio buffer of any content is drawn and handed   *)
(* to audioBufferToObjectUrl.                                              *)
(***************************************************************************)
InitEncode ==
    /\ now = 0
    /\ nodes = <<>>
    /\ activeNodes = <<>>
    /\ masterGain = 1
    /\ masters = <<NewMaster>>
    /\ timers = <<>>
    /\ buffers = <<>>
    /\ stops = 0
    /\ score = <<>>
    /\ rendered = NoRender
    /\ last = NoCall
    /\ mml = <<>>
    /\ parsed = NoParse
    /\ loads = <<>>
    /\ fetched = <<>>
    /\ lookup = NoLookup
    /\ pitch = NoPitch
    /\ wav \in {[NoWav EXCEPT !.buffer = buffer] : buffer \in AudioBuffers}

\* audioBufferToObjectUrl(buffer)
EncodeBuffer ==
    /\ wav.op = "none"
    /\ AudioBufferToObjectUrl("encode", wav.buffer)
    /\ UNCHANGED <<parserVars, loaderVars, lookup, pitch>>
    /\ UNCHANGED <<now, nodes, activeNodes, masterGain, masters, timers, buffers, stops,
                   score, rendered, last>>

NextEncode == EncodeBuffer

SpecEncode == InitEncode /\ [][NextEncode]_vars

(***************************************************************************)
(* The pitch names on their way from the score text to noteToFrequency: a  *)
(* score of one note, at every octave setting with and without a shift,    *)
(* for every note letter and accidental, is parsed, then played live and   *)
(* rendered offline, as MML.play and MML.mmlToWavUrl do.                   *)
(***************************************************************************)
PitchTexts ==
    {MML_PREFIX \o <<"O", Digits[d]>> \o shift \o <<letter>> \o sign \o MML_SUFFIX :
        d \in 1..Len(Digits), shift \in {<<>>, <<">">>, <<"<">>},
        letter \in {"a", "b", "c", "d", "e", "f", "g", "r"},
        sign \in {<<>>, <<"+">>, <<"-">>}}

InitPitch ==
    /\ now = 0
    /\ nodes = <<>>
    /\ activeNodes = <<>>
    /\ masterGain = 1
    /\ masters = <<NewMaster>>
    /\ timers = <<>>
    /\ buffers = <<>>
    /\ stops = 0
    /\ score = <<>>
    /\ rendered = NoRender
    /\ last = NoCall
    /\ mml \in PitchTexts
    /\ parsed = NoParse
    /\ loads = <<>>
    /\ fetched = <<>>
    /\ lookup = NoLookup
    /\ pitch = NoPitch
    /\ wav = NoWav

\* mmlToWavUrl(tracks) on the parsed tracks
RenderParsed ==
    /\ parsed.op = "parse" /\ parsed.threw = "none"
    /\ rendered.op = "none"
    /\ rendered' = MmlToWavUrl(InTicks(parsed.tracks), buffers)
    /\ last' = Quiet
    /\ UNCHANGED <<now, nodes, activeNodes, masterGain, masters, timers, buffers, stops, score,
                   mml, parsed, loaderVars, resolverVars>>

NextPitch == ParseScore \/ PlayParsed \/ RenderParsed

SpecPitch == InitPitch /\ [][NextPitch]_vars

(***************************************************************************)
(* parseLine on its own, one pass of its while loop at a time: a staff is  *)
(* drawn, and the cursor, the staff's state and the results are followed   *)
(* from the entry of the function to its return.                           *)
(***************************************************************************)
MaxChars == 4
LineChars == {"T", "O", "V", "L", ">", "C", "R", "+", "9", ".", "X", " "}
Lines == SeqsUpTo(LineChars, MaxChars)

\* parseLine's locals at its entry; passes counts the passes of the loop
LineEntry ==
    [op |-> "parseLine", threw |-> "none", cursor |-> 1, state |-> InitialLineState,
     results |-> <<>>, passes |-> 0]

InitTokens ==
    /\ now = 0
    /\ nodes = <<>>
    /\ activeNodes = <<>>
    /\ masterGain = 1
    /\ masters = <<NewMaster>>
    /\ timers = <<>>
    /\ buffers = <<>>
    /\ stops = 0
    /\ score = <<>>
    /\ rendered = NoRender
    /\ last = NoCall
    /\ mml \in Lines
    /\ parsed = LineEntry
    /\ loads = <<>>
    /\ fetched = <<>>
    /\ lookup = NoLookup
    /\ pitch = NoPitch
    /\ wav = NoWav

\* while (cursor < line.length) { ... }: one pass
Iterate ==
    /\ parsed.op = "parseLine"
    /\ parsed.cursor <= Len(mml)
    /\ LET pass == ParseIteration(mml, Piano, parsed.cursor, parsed.state, parsed.results)
       IN  parsed' = [parsed EXCEPT !.cursor = pass.cursor, !.state = pass.state,
                                    !.results = pass.results, !.passes = @ + 1]
    /\ UNCHANGED <<now, nodes, activeNodes, masterGain, masters, timers, buffers, stops, score,
                   rendered, last, mml, loaderVars, resolverVars>>

\* return results
ReturnResults ==
    /\ parsed.op = "parseLine"
    /\ parsed.cursor > Len(mml)
    /\ parsed' = [parsed EXCEPT !.op = "return"]
    /\ UNCHANGED <<now, nodes, activeNodes, masterGain, masters, timers, buffers, stops, score,
                   rendered, last, mml, loaderVars, resolverVars>>

NextTokens == Iterate \/ ReturnResults

SpecTokens == InitTokens /\ [][NextTokens]_vars

(***************************************************************************)
(* What the claims speak of, stated without the scheduler's own            *)
(* definitions.                                                            *)
(***************************************************************************)
IsRestEvent(event) == event.note = RestText
IsGoodDuration(d) == d # NotFinite /\ d # Undefined /\ d > 0
HasBadDuration(tracks) ==
    \E t \in 1..Len(tracks) : \E i \in 1..Len(tracks[t]) : ~IsGoodDuration(tracks[t][i].duration)

RECURSIVE SumBefore(_, _)
SumBefore(track, i) == IF i <= 1 THEN 0 ELSE SumBefore(track, i - 1) + track[i - 1].duration

\* The delays of the non-rest events of a track, in order.
TrackDelays(track) ==
    LET indices == SelectSeq([i \in 1..Len(track) |-> i], LAMBDA i : ~IsRestEvent(track[i]))
    IN  [k \in 1..Len(indices) |-> SumBefore(track, indices[k])]
RECURSIVE ScoreDelays(_)
ScoreDelays(tracks) ==
    IF tracks = <<>> THEN <<>> ELSE TrackDelays(Head(tracks)) \o ScoreDelays(Tail(tracks))

IsPrefix(a, b) == Len(a) <= Len(b) /\ a = SubSeq(b, 1, Len(a))

\* The voices the last call created.
NewVoices == SubSeq(nodes, last.created + 1, Len(nodes))
NewDelays == [k \in 1..Len(NewVoices) |-> NewVoices[k].delay]

\* C2: playMml on tracks holding an event whose duration is not a finite positive
\* number throws RangeError before any side effect: no voice is created and the
\* registry is as it was.
C2_FailFastNoPartialScheduling ==
    (last.op = "playMml" /\ HasBadDuration(last.tracks)) =>
        /\ last.threw = "RangeError"
        /\ Len(nodes) = last.created
        /\ activeNodes = last.registry

\* C3: the i-th non-rest event of a track is scheduled with a delay equal to the sum
\* of the durations of the events before it in that track, rests included, and every
\* voice of the call carries the same contextTime.
C3_DelayIsSumOfPrecedingDurations ==
    last.op = "playMml" =>
        /\ IsPrefix(NewDelays, ScoreDelays(last.tracks))
        /\ last.threw = "none" => Len(NewDelays) = Len(ScoreDelays(last.tracks))
        /\ \A j, k \in 1..Len(NewVoices) : NewVoices[j].contextTime = NewVoices[k].contextTime

C3_Witness ==
    /\ last.op = "playMml" /\ last.threw = "none"
    /\ Len(last.tracks) = 2
    /\ Len(NewVoices) = 2
    /\ NewVoices[1].delay = 10 /\ NewVoices[2].delay = 0
    /\ now > 0

\* C4: a REST event never produces a voice, live or offline, and its duration still
\* moves the start of the events after it.
ValidScore(tracks) == ~HasBadDuration(tracks)
RestCount(tracks) ==
    Cardinality({<<t, i>> \in (1..Len(tracks)) \X (1..MaxEvents + 1) :
                    i <= Len(tracks[t]) /\ IsRestEvent(tracks[t][i])})

C4_RestMakesNoVoice ==
    /\ (last.op = "playMml" /\ ValidScore(last.tracks)) =>
          /\ last.threw = "none"
          /\ Len(NewVoices) = CountEvents(last.tracks) - RestCount(last.tracks)
          /\ Len(activeNodes) = Len(last.registry) + Len(NewVoices)
          /\ NewDelays = ScoreDelays(last.tracks)
    /\ (rendered.op = "render" /\ ValidScore(score)) =>
          /\ rendered.threw = "none"
          /\ Len(rendered.voices) = CountEvents(score) - RestCount(score)
          /\ [k \in 1..Len(rendered.voices) |-> rendered.voices[k].startAt] = ScoreDelays(score)

C4_Witness ==
    /\ last.op = "playMml" /\ last.threw = "none"
    /\ rendered.op = "render" /\ rendered.threw = "none"
    /\ Len(score) = 1 /\ Len(score[1]) = 3
    /\ IsRestEvent(score[1][2]) /\ ~IsRestEvent(score[1][1]) /\ ~IsRestEvent(score[1][3])
    /\ Len(NewVoices) = 2 /\ NewVoices[2].delay = 30
    /\ Len(rendered.voices) = 2 /\ rendered.voices[2].startAt = 30

(***************************************************************************)
(* Sound.  A voice is heard at time t when its source is playing at t and  *)
(* the path source -> gain -> master gain -> destination is connected and  *)
(* open.  Gains are piecewise linear between events, so a voice that will  *)
(* be heard at all is heard at an event time of one of its two gains, at   *)
(* the present time, or just after one of these.                           *)
(***************************************************************************)
InRegistry(n) == \E i \in 1..Len(activeNodes) : activeNodes[i] = n

AudibleAt(voice, t) ==
    /\ voice.started /\ voice.startAt <= t /\ t < voice.stopAt
    /\ voice.sourceConnected
    /\ voice.out # 0
    /\ ValueAt(voice.gain, t) # Silent
    /\ masters[voice.out].connected
    /\ ValueAt(masters[voice.out].gain, t) # Silent

EventTimes(p) == {p.events[i].time : i \in 1..Len(p.events)}
Instants(voice) ==
    LET marks == {now} \cup EventTimes(voice.gain)
                 \cup (IF voice.out # 0 THEN EventTimes(masters[voice.out].gain) ELSE {})
    IN  {t \in marks \cup {m + 1 : m \in marks} : t >= now}

\* The voice sounds now or is scheduled to sound later.
WillSound(voice) == \E t \in Instants(voice) : AudibleAt(voice, t)
WillSoundAfter(voice, limit) == \E t \in Instants(voice) : t >= limit /\ AudibleAt(voice, t)

FullyOpen(master) == master.connected /\ master.gain.value = FullGain /\ master.gain.events = <<>>

\* C1: a voice activated after stop() is routed to a fully open master gain that is
\* connected to the destination and that the fade of stop() never touches, also when
\* it is activated before the deferred master-gain replacement has run.  (A voice
\* that no stop() has faded and that is not disposed is one activated after the last
\* stop(), or before any.)
C1_VoicesAfterStopUseOpenMaster ==
    \A n \in 1..Len(nodes) :
        (~nodes[n].faded /\ ~nodes[n].disposed) =>
            nodes[n].out # 0 /\ FullyOpen(masters[nodes[n].out])

\* C5: stop() called twice, with or without the timers of the first call having run
\* in between, never throws and leaves the registry empty each time.
C5_StopTwiceLeavesRegistryEmpty ==
    last.op = "stop" => (last.threw = "none" /\ activeNodes = <<>>)

C5_Witness ==
    /\ last.op = "stop" /\ stops = 2
    /\ \E n \in 1..Len(nodes) : nodes[n].faded /\ ~nodes[n].disposed
    /\ \E i \in 1..Len(timers) : timers[i].type = "dispose"
    /\ Len(SelectSeq(timers, LAMBDA timer : timer.type = "master")) = 2

\* C7: the effects of disposing a voice are applied exactly once however the natural
\* end, stop() and its cleanup timer interleave; a later dispose call changes nothing
\* and a disposed voice is never in the registry again.
C7_DisposeAppliedOnce ==
    \A n \in 1..Len(nodes) :
        /\ nodes[n].disposals = (IF nodes[n].calls = 0 THEN 0 ELSE 1)
        /\ nodes[n].disposed = (nodes[n].calls > 0)
        /\ nodes[n].disposed =>
              /\ ~InRegistry(n)
              /\ ~nodes[n].sourceConnected /\ nodes[n].out = 0 /\ ~nodes[n].listening
              /\ nodes[n].stopAt <= now

C7_Witness ==
    \E n \in 1..Len(nodes) :
        /\ nodes[n].calls = 2 /\ nodes[n].disposals = 1
        /\ nodes[n].faded

\* C8: every activated voice is registered: a playSample call that returns adds one
\* voice to the registry, sample-backed or sine; a play call over valid tracks adds
\* as many voices as the tracks have non-rest events; and a voice stays in the
\* registry until it is disposed or a stop() takes it out.
C8_EveryVoiceIsRegistered ==
    /\ (last.op = "playSample" /\ last.threw = "none") =>
          /\ Len(nodes) = last.created + 1
          /\ activeNodes = Append(last.registry, Len(nodes))
          /\ nodes[Len(nodes)].kind \in {"buffer", "sine"}
    /\ (last.op = "playMml" /\ ValidScore(last.tracks)) =>
          /\ last.threw = "none"
          /\ Len(NewVoices) = CountEvents(last.tracks) - RestCount(last.tracks)
          /\ activeNodes = last.registry
                \o [k \in 1..Len(NewVoices) |-> last.created + k]
    /\ \A n \in 1..Len(nodes) : InRegistry(n) \/ nodes[n].disposed \/ nodes[n].faded

C8_Witness ==
    /\ last.op = "playSample" /\ last.threw = "none"
    /\ Len(nodes) = 2 /\ activeNodes = <<2>>
    /\ nodes[1].disposed /\ ~nodes[1].faded
    /\ nodes[2].kind = "buffer" /\ nodes[2].rateDen # nodes[2].rateNum

\* C9: stopped reports whether every active voice has finished: when it reads true,
\* no voice that was activated still sounds or is still scheduled to sound.
C9_StoppedMeansNothingSounds ==
    Stopped(activeNodes, nodes) => \A n \in 1..Len(nodes) : ~WillSound(nodes[n])

\* C10: stopped is true when the registry is empty; otherwise it is true exactly when
\* the gain stage of the most recently registered voice of the registry reports that
\* it has ended, whatever the state of the other voices.
MostRecentlyRegistered == CHOOSE n \in 1..Len(nodes) : InRegistry(n) /\ \A m \in 1..Len(nodes) : InRegistry(m) => m <= n
FadeEnd(voice) == LastEventTime(voice.gain)
DisposalPending(n) == \E i \in 1..Len(timers) : timers[i] = [type |-> "dispose", ref |-> n]

C6_FadedVoice(n) ==
    LET voice == nodes[n]
        events == voice.gain.events
    IN  /\ Len(events) >= 2
        /\ events[Len(events)].type = "ramp" /\ events[Len(events)].value = Silent
        /\ events[Len(events) - 1].type = "set"
        /\ events[Len(events)].time = events[Len(events) - 1].time + MASTER_FADE_DURATION_MS
        /\ \A i \in 1..(Len(events) - 2) : events[i].time < events[Len(events) - 1].time
        /\ voice.stopAt <= FadeEnd(voice)
        /\ ~InRegistry(n)
        /\ voice.disposed \/ DisposalPending(n)
        /\ ~WillSoundAfter(voice, FadeEnd(voice))

C6_JustStopped ==
    last.op = "stop" =>
        \A i \in 1..Len(last.registry) :
            /\ nodes[last.registry[i]].faded
            /\ FadeEnd(nodes[last.registry[i]]) = now + MASTER_FADE_DURATION_MS
            /\ DisposalPending(last.registry[i])

C6_Safety == C6_JustStopped /\ \A n \in 1..Len(nodes) : nodes[n].faded => C6_FadedVoice(n)

C6_StopFadesAndDisposesEveryVoice ==
    /\ []C6_Safety
    /\ \A n \in 1..MaxVoices :
          (n <= Len(nodes) /\ nodes[n].faded) ~> (n <= Len(nodes) /\ nodes[n].disposed)

C6_Witness ==
    /\ last.op = "stop" /\ Len(last.registry) = 2
    /\ nodes[1].startAt < now /\ now < nodes[1].stopAt
    /\ nodes[2].startAt > now + MASTER_FADE_DURATION_MS
    /\ AudibleAt(nodes[1], now)

\* C11: within one track the voices are scheduled strictly in parsed order: of two
\* non-rest events of a track the earlier has the strictly smaller delay and start
\* time, for every track the parser produces.
NonRestCount(track) == Cardinality({i \in 1..Len(track) : ~IsRestEvent(track[i])})
RECURSIVE VoicesBefore(_, _)
VoicesBefore(tracks, t) ==
    IF t <= 1 THEN 0 ELSE VoicesBefore(tracks, t - 1) + NonRestCount(tracks[t - 1])

C11_TrackOrderIsStrict ==
    (last.op = "playMml" /\ parsed.op = "parse") =>
        /\ last.threw = "none"
        /\ Len(NewVoices) = VoicesBefore(last.tracks, Len(last.tracks) + 1)
        /\ \A t \in 1..Len(last.tracks) :
              \A i, j \in 1..NonRestCount(last.tracks[t]) :
                  i < j =>
                      /\ NewVoices[VoicesBefore(last.tracks, t) + i].delay
                            < NewVoices[VoicesBefore(last.tracks, t) + j].delay
                      /\ NewVoices[VoicesBefore(last.tracks, t) + i].startAt
                            < NewVoices[VoicesBefore(last.tracks, t) + j].startAt

C11_Witness ==
    /\ last.op = "playMml" /\ parsed.op = "parse"
    /\ Len(last.tracks) = 1 /\ Len(last.tracks[1]) = 3
    /\ IsRestEvent(last.tracks[1][2])
    /\ last.tracks[1][1].duration # last.tracks[1][3].duration
    /\ Len(NewVoices) = 2
    /\ NewVoices[2].delay = last.tracks[1][1].duration + last.tracks[1][2].duration

\* C12: while an instrument has no stored sample (no load for it was made, or every
\* load for it failed), playSample, playMml and mmlToWavUrl on valid notes of that
\* instrument do not throw and make one sine voice, at the note's frequency, for
\* every non-rest event.
KeyOf(name) == ToLowerCase(Trim(name))
NeverStored(name) ==
    \A k \in 1..Len(fetched) : fetched[k].ok => KeyOf(fetched[k].name) # KeyOf(name)
NonRestEvents(track) == SelectSeq(track, LAMBDA event : ~IsRestEvent(event))
RECURSIVE AllNonRestEvents(_)
AllNonRestEvents(tracks) ==
    IF tracks = <<>> THEN <<>> ELSE NonRestEvents(Head(tracks)) \o AllNonRestEvents(Tail(tracks))
SineVoicesFor(voices, events) ==
    /\ Len(voices) = Len(events)
    /\ \A k \in 1..Len(voices) :
          /\ voices[k].kind = "sine"
          /\ voices[k].frequency = NoteToFrequency(events[k].note)
          /\ NeverStored(events[k].name) => voices[k].buffer = NoBuffer.buffer

SameSlot(entry, name, note) ==
    KeyOf(entry.name) = KeyOf(name) /\ NoteToFrequency(entry.note) = NoteToFrequency(note)
Attempts(name, note) == {k \in 1..Len(fetched) : SameSlot(fetched[k], name, note)}
Successes(name, note) == {k \in Attempts(name, note) : fetched[k].ok}
Latest(indices) == CHOOSE k \in indices : \A m \in indices : m <= k
BufferFetchedAt(k) == BufferOf(fetched[k].call, fetched[k].item)
PlayedOptions == last.tracks[1][1]

FetchedOk(c, i) == \E k \in 1..Len(fetched) : fetched[k].call = c /\ fetched[k].item = i /\ fetched[k].ok
Attempted(c, i) == \E k \in 1..Len(fetched) : fetched[k].call = c /\ fetched[k].item = i
ValidPitch(note) == ~NoteToFrequencyThrows(note)

C14_LoadFailuresAreIsolated ==
    \A c \in 1..Len(loads) :
        /\ Len(loads[c].results) = loads[c].index - 1
        /\ \A i \in 1..Len(loads[c].results) :
              /\ loads[c].results[i] = FetchedOk(c, i)
              /\ ValidPitch(loads[c].files[i].note) => Attempted(c, i)
              /\ loads[c].results[i] =>
                    /\ HasInstrument(buffers, KeyOf(loads[c].files[i].name))
                    /\ HasSlot(buffers[KeyOf(loads[c].files[i].name)],
                               NoteToFrequency(loads[c].files[i].note))
        /\ loads[c].status \in {"fetching", "done"}
        /\ loads[c].status = "fetching" =>
              loads[c].index <= Len(loads[c].files) /\ loads[c].value = <<>>
        /\ loads[c].status = "done" =>
              /\ loads[c].index = Len(loads[c].files) + 1
              /\ IF loads[c].isArray THEN loads[c].value = loads[c].results
                 ELSE Len(loads[c].files) = 1 /\ loads[c].value = <<FetchedOk(c, 1)>>

C14_Witness ==
    /\ Len(loads) = 2
    /\ loads[1].status = "done" /\ loads[1].isArray /\ loads[1].value = <<FALSE, TRUE>>
    /\ loads[1].files = <<FileBad, FileA4>>
    /\ loads[2].status = "done" /\ loads[2].isArray /\ loads[2].value = <<FALSE, TRUE>>
    /\ loads[2].files = <<FileA4, FileA4>>

\* C15: after any loads, overlapping or not, the store holds at most one buffer per
\* (trimmed lower-cased instrument, frequency), and it is the buffer of the load of
\* that key that succeeded most recently: the later item of a batch, or of two loads
\* in flight the one whose fetch completed last.
SuccessesAt(key, freq) ==
    {k \in 1..Len(fetched) :
        fetched[k].ok /\ KeyOf(fetched[k].name) = key /\ NoteToFrequency(fetched[k].note) = freq}

C15_LastSuccessfulLoadWins ==
    /\ \A key \in DOMAIN buffers :
          /\ key = KeyOf(key)
          /\ \A i, j \in 1..Len(buffers[key]) :
                buffers[key][i].freq = buffers[key][j].freq => i = j
          /\ \A i \in 1..Len(buffers[key]) :
                /\ SuccessesAt(key, buffers[key][i].freq) # {}
                /\ buffers[key][i].buffer
                      = BufferFetchedAt(Latest(SuccessesAt(key, buffers[key][i].freq)))
    /\ \A k \in 1..Len(fetched) :
          fetched[k].ok =>
              /\ HasInstrument(buffers, KeyOf(fetched[k].name))
              /\ HasSlot(buffers[KeyOf(fetched[k].name)], NoteToFrequency(fetched[k].note))

\* The first call's fetch completed after the second call's two items were stored.
C15_Witness ==
    /\ Len(fetched) = 3
    /\ fetched[1].call = 2 /\ fetched[2].call = 2 /\ fetched[3].call = 1
    /\ \A k \in 1..3 : fetched[k].ok /\ SameSlot(fetched[k], Piano, NoteA4)
    /\ buffers[Piano][1].buffer = BufferOf(1, 1)
    /\ Len(buffers[Piano]) = 1

\* C16: the store is written only by a load that succeeded, which writes exactly one
\* slot and removes none: playSample, playMml, mmlToWavUrl, stop, the start of a
\* load and a load that failed leave every key and slot as they were (a failed load
\* makes no instrument key), and stop() leaves the loads in flight as they were.
SlotsOf(store, key) == IF HasInstrument(store, key) THEN store[key] ELSE <<>>
BufferAt(store, key, freq) ==
    IF HasInstrument(store, key) /\ HasSlot(store[key], freq)
    THEN store[key][SlotIndex(store[key], freq)].buffer
    ELSE 0

WritesOneSlot(before, after, entry) ==
    LET key == KeyOf(entry.name)
        freq == NoteToFrequency(entry.note)
    IN  /\ DOMAIN after = DOMAIN before \cup {key}
        /\ \A other \in DOMAIN before : other # key => after[other] = before[other]
        /\ BufferAt(after, key, freq) = BufferOf(entry.call, entry.item)
        /\ Len(after[key]) = Len(SlotsOf(before, key))
                             + (IF BufferAt(before, key, freq) = 0 THEN 1 ELSE 0)
        /\ \A i \in 1..Len(SlotsOf(before, key)) :
              before[key][i].freq # freq =>
                  BufferAt(after, key, before[key][i].freq) = before[key][i].buffer

C16_StoreStep ==
    /\ (last'.op # "fetch") => buffers' = buffers
    /\ (last'.op = "fetch") =>
          /\ Len(fetched') = Len(fetched) + 1
          /\ IF fetched'[Len(fetched')].ok
             THEN WritesOneSlot(buffers, buffers', fetched'[Len(fetched')])
             ELSE buffers' = buffers
    /\ (last'.op = "stop") => loads' = loads /\ fetched' = fetched

C16_OnlySuccessfulLoadsWriteTheStore == [][C16_StoreStep]_vars

\* A load in flight while stop() ran stored its second item after the stop.
C16_Witness ==
    /\ Len(nodes) = 1 /\ nodes[1].kind = "buffer" /\ nodes[1].buffer = BufferOf(1, 1)
    /\ nodes[1].faded /\ stops = 1
    /\ last.op = "fetch"
    /\ fetched[Len(fetched)].call = 1 /\ fetched[Len(fetched)].item = 2
    /\ fetched[Len(fetched)].ok
    /\ buffers[Piano][1].buffer = BufferOf(1, 2)


\* C17: resolveBuffer returns the buffer stored at exactly the target frequency with
\* playback rate 1 when there is one; otherwise the buffer of a stored frequency whose
\* absolute difference to the target is minimal, with playback rate target / nearest;
\* and no match when the map holds no frequency.
IsNearestSlot(slots, i, target) ==
    \A j \in 1..Len(slots) : Abs(slots[i].freq - target) <= Abs(slots[j].freq - target)

Inked(text) == {i \in 1..Len(text) : text[i] \notin WhiteSpace}
FirstInk(text) == CHOOSE i \in Inked(text) : \A j \in Inked(text) : i <= j
LastInk(text) == CHOOSE i \in Inked(text) : \A j \in Inked(text) : j <= i
PrefixLetters == <<{"M", "m"}, {"M", "m"}, {"L", "l"}, {"@"}>>
BeginsWithPrefix(text) ==
    /\ LastInk(text) - FirstInk(text) + 1 >= Len(PrefixLetters)
    /\ \A k \in 1..Len(PrefixLetters) : text[FirstInk(text) + k - 1] \in PrefixLetters[k]
EndsWithSemicolon(text) == text[LastInk(text)] = ";"

C18_DelimitersDecideTheError ==
    parsed.op = "parse" =>
        IF Inked(mml) = {}
        THEN parsed.threw = "none" /\ parsed.tracks = <<>>
        ELSE parsed.threw =
                 (IF BeginsWithPrefix(mml) /\ EndsWithSemicolon(mml) THEN "none" ELSE "Error")

\* A score with its prefix and a note, but no ';' at its end, made mmlToNote throw.
C18_Witness ==
    /\ parsed.op = "parse"
    /\ parsed.threw = "Error"
    /\ Inked(mml) # {}
    /\ BeginsWithPrefix(mml)
    /\ mml[LastInk(mml)] = "c"


\* C19: within a staff the T, O, V and L directives and the '>' / '<' shifts stay in
\* effect until changed: every emitted event has the tempo, octave, volume and default
\* length of the most recent directive before it in its staff (120, 4, 12 and 4 when
\* there is none), and 'MML@ T120 O4 V12 L4 cdefgab>c;' gives one track of 8 events
\* of 500 ms at volume 12/15, the 8th being C5 where the first is C4.
Nearest(value, lo, hi) ==
    CHOOSE x \in lo..hi : \A y \in lo..hi : Abs(x - value) <= Abs(y - value)
RunEnd(line, q) ==
    CHOOSE e \in q..Len(line) :
        /\ \A i \in (q + 1)..e : line[i] \in {Digits[d] : d \in 1..Len(Digits)}
        /\ e < Len(line) => line[e + 1] \notin {Digits[d] : d \in 1..Len(Digits)}
HasNumberAfter(line, q) == RunEnd(line, q) > q
NumberAfter(line, q) == ParseInt(SubSeq(line, q + 1, RunEnd(line, q)))
LastBefore(line, p, char) ==
    LET found == {q \in 1..(p - 1) : line[q] = char}
    IN  IF found = {} THEN 0 ELSE CHOOSE q \in found : \A r \in found : r <= q
SettingAt(line, p, char, default, lo, hi) ==
    LET q == LastBefore(line, p, char)
    IN  IF q = 0 \/ ~HasNumberAfter(line, q) THEN default
        ELSE Nearest(NumberAfter(line, q), lo, hi)
RECURSIVE Shifted(_, _, _, _)
Shifted(line, from, to, octave) ==
    IF from >= to THEN octave
    ELSE Shifted(line, from + 1, to,
                 IF line[from] = ">" THEN Nearest(octave + 1, MIN_OCTAVE, MAX_OCTAVE)
                 ELSE IF line[from] = "<" THEN Nearest(octave - 1, MIN_OCTAVE, MAX_OCTAVE)
                 ELSE octave)
OctaveAt(line, p) ==
    Shifted(line, LastBefore(line, p, "O") + 1, p,
            SettingAt(line, p, "O", DEFAULT_OCTAVE, MIN_OCTAVE, MAX_OCTAVE))
NotePositions(line) == {p \in 1..Len(line) : line[p] \in {"A", "B", "C", "D", "E", "F", "G", "R"}}
ExpectedEvent(line, p) ==
    LET sharp == line[p] # "R" /\ p < Len(line) /\ line[p + 1] = "+"
        flat == line[p] # "R" /\ p < Len(line) /\ line[p + 1] = "-"
        figureAt == IF sharp \/ flat THEN p + 1 ELSE p
        length == IF HasNumberAfter(line, figureAt)
                  THEN Nearest(NumberAfter(line, figureAt), MIN_LENGTH, MAX_LENGTH)
                  ELSE SettingAt(line, p, "L", DEFAULT_LENGTH, MIN_LENGTH, MAX_LENGTH)
        isDotted == RunEnd(line, figureAt) < Len(line) /\ line[RunEnd(line, figureAt) + 1] = "."
        tempo == SettingAt(line, p, "T", DEFAULT_TEMPO, MIN_TEMPO, MAX_TEMPO)
    IN  [name |-> Piano,
         note |-> IF line[p] = "R" THEN RestText
                  ELSE <<line[p]>> \o (IF sharp THEN <<"#">> ELSE IF flat THEN <<"B">> ELSE <<>>)
                       \o <<Digits[OctaveAt(line, p) + 1]>>,
         duration |-> Fraction(MS_PER_MINUTE * BEATS_PER_WHOLE * (IF isDotted THEN 3 ELSE 2),
                               tempo * length * 2),
         volume |-> SettingAt(line, p, "V", DEFAULT_VOLUME, MIN_VOLUME, MAX_VOLUME)]
ExpectedTrack(line) ==
    LET positions == SortAscending(NotePositions(line))
    IN  [k \in 1..Len(positions) |-> ExpectedEvent(line, positions[k])]
ExpectedTracks(text) ==
    LET upper == ToUpperCase(Trim(text))
        staffs == Staffs(SubSeq(upper, Len(MML_PREFIX) + 1, Len(upper) - Len(MML_SUFFIX)))
    IN  SelectSeq([i \in 1..Len(staffs) |-> ExpectedTrack(staffs[i])],
                  LAMBDA track : Len(track) > 0)
ReadmeNotes ==
    <<<<"C", "4">>, <<"D", "4">>, <<"E", "4">>, <<"F", "4">>, <<"G", "4">>, <<"A", "4">>,
      <<"B", "4">>, <<"C", "5">>>>
ReadmeTracks ==
    << [k \in 1..Len(ReadmeNotes) |->
           [name |-> Piano, note |-> ReadmeNotes[k], duration |-> [num |-> 500, den |-> 1],
            volume |-> 12]] >>

C19_DirectivesStayInEffect ==
    (parsed.op = "parse" /\ parsed.threw = "none" /\ Inked(mml) # {}) =>
        /\ parsed.tracks = ExpectedTracks(mml)
        /\ mml = ReadmeScore => parsed.tracks = ReadmeTracks

\* A staff of two notes with one V directive before the first: both notes have its
\* volume.
C19_Witness ==
    /\ parsed.op = "parse" /\ parsed.threw = "none"
    /\ Len(parsed.tracks) = 1 /\ Len(parsed.tracks[1]) = 2
    /\ LastBefore(ToUpperCase(mml), Len(mml), "V") = Len(MML_PREFIX) + 1
    /\ parsed.tracks[1][1].volume = 0
    /\ parsed.tracks[1][2].volume = 0


\* C20: after any sequence of tokens of a staff the parser's tempo is in 40..200, its
\* octave in 1..7, its volume in 0..15 and its default length in 1..64, '>' at octave
\* 7 and '<' at octave 1 leave the octave as it is, and every emitted event has a
\* duration that is finite and > 0, a volume in 0..15 fifteenths (0 after V0) and,
\* unless it is a rest, an octave in 1..7.
StaffsOf(text) ==
    LET upper == ToUpperCase(Trim(text))
    IN  Staffs(SubSeq(upper, Len(MML_PREFIX) + 1, Len(upper) - Len(MML_SUFFIX)))
StateAfter(line, k) == ParseTokens(SubSeq(line, 1, k), Piano, 1, InitialLineState, <<>>).state
StateInRange(state) ==
    /\ state.tempo \in 40..200
    /\ state.octave \in 1..7
    /\ state.volume \in 0..15
    /\ state.defaultLength \in 1..64
ShiftsStopAtTheEnds(line) ==
    \A k \in 0..(Len(line) - 1) :
        /\ (line[k + 1] = ">" /\ StateAfter(line, k).octave = 7)
               => StateAfter(line, k + 1).octave = 7
        /\ (line[k + 1] = "<" /\ StateAfter(line, k).octave = 1)
               => StateAfter(line, k + 1).octave = 1
        /\ (line[k + 1] = ">" /\ StateAfter(line, k).octave < 7)
               => StateAfter(line, k + 1).octave = StateAfter(line, k).octave + 1
        /\ (line[k + 1] = "<" /\ StateAfter(line, k).octave > 1)
               => StateAfter(line, k + 1).octave = StateAfter(line, k).octave - 1
EventInRange(event) ==
    /\ event.duration.num > 0 /\ event.duration.den > 0
    /\ event.volume \in 0..15
    /\ event.note # RestText => event.note[Len(event.note)] \in {"1", "2", "3", "4", "5", "6", "7"}
SilencedAt(line, p) ==
    LET q == LastBefore(line, p, "V")
    IN  q > 0 /\ HasNumberAfter(line, q) /\ NumberAfter(line, q) = 0
SoundingStaffs(text) == SelectSeq(StaffsOf(text), LAMBDA line : NotePositions(line) # {})

C20_ParserStateStaysInRange ==
    (parsed.op = "parse" /\ parsed.threw = "none" /\ Inked(mml) # {}) =>
        /\ \A s \in 1..Len(StaffsOf(mml)) :
              /\ \A k \in 0..Len(StaffsOf(mml)[s]) : StateInRange(StateAfter(StaffsOf(mml)[s], k))
              /\ ShiftsStopAtTheEnds(StaffsOf(mml)[s])
        /\ Len(parsed.tracks) = Len(SoundingStaffs(mml))
        /\ \A t \in 1..Len(parsed.tracks) :
              LET positions == SortAscending(NotePositions(SoundingStaffs(mml)[t]))
              IN  /\ Len(parsed.tracks[t]) = Len(positions)
                  /\ \A k \in 1..Len(parsed.tracks[t]) :
                        /\ EventInRange(parsed.tracks[t][k])
                        /\ SilencedAt(SoundingStaffs(mml)[t], positions[k])
                               => parsed.tracks[t][k].volume = 0

\* O9 set the octave to 7, and a note after a '>' is still at octave 7.
C20_Witness ==
    /\ parsed.op = "parse" /\ parsed.threw = "none"
    /\ Len(parsed.tracks) = 1 /\ Len(parsed.tracks[1]) = 1
    /\ Occurs(mml, "9") /\ Occurs(mml, ">")
    /\ LastBefore(mml, Len(mml), "9") < LastBefore(mml, Len(mml), ">")
    /\ parsed.tracks[1][1].note = <<"C", "7">>


\* C21: every staff of a comma-separated score is parsed from the default tempo,
\* octave, volume and length, whatever the other staffs hold: a track of the score is
\* the track its staff gives as a score of its own, and so is its total duration.
AloneTrack(line) == MmlToNote(MML_PREFIX \o line \o MML_SUFFIX, Piano).tracks[1]
RECURSIVE SumOfDurations(_)
SumOfDurations(track) ==
    IF track = <<>> THEN [num |-> 0, den |-> 1]
    ELSE LET rest == SumOfDurations(Tail(track))
             d == Head(track).duration
         IN  Fraction(d.num * rest.den + rest.num * d.den, d.den * rest.den)

C21_StaffsAreParsedIndependently ==
    (parsed.op = "parse" /\ parsed.threw = "none" /\ Inked(mml) # {}) =>
        /\ Len(parsed.tracks) = Len(SoundingStaffs(mml))
        /\ \A t \in 1..Len(parsed.tracks) :
              /\ parsed.tracks[t] = AloneTrack(SoundingStaffs(mml)[t])
              /\ SumOfDurations(parsed.tracks[t])
                     = SumOfDurations(AloneTrack(SoundingStaffs(mml)[t]))
        /\ mml = TwoStaffScore =>
              /\ Len(parsed.tracks) = 2
              /\ SumOfDurations(parsed.tracks[1]) = [num |-> 2500, den |-> 1]
              /\ SumOfDurations(parsed.tracks[2]) = [num |-> 1500, den |-> 1]

\* 'MML@ T96 cdef, O3 V10 g4e4c4;' parsed: the second staff plays at the default tempo
\* and the first at the default octave and volume.
C21_Witness ==
    /\ parsed.op = "parse" /\ parsed.threw = "none"
    /\ mml = TwoStaffScore
    /\ Len(parsed.tracks) = 2
    /\ parsed.tracks[1][1].duration = [num |-> 625, den |-> 1]
    /\ parsed.tracks[2][1].duration = [num |-> 500, den |-> 1]
    /\ parsed.tracks[1][1].note = <<"C", "4">> /\ parsed.tracks[1][1].volume = 12
    /\ parsed.tracks[2][1].note = <<"G", "3">> /\ parsed.tracks[2][1].volume = 10


\* C22: mmlToNote returns one track for every staff of the body that is not blank,
\* in the order of the staffs, each track holding the events of its staff in the
\* order of the scan from left to right.
C22_OneTrackPerStaff ==
    (parsed.op = "parse" /\ parsed.threw = "none" /\ Inked(mml) # {}) =>
        /\ Len(parsed.tracks) = Len(StaffsOf(mml))
        /\ \A s \in 1..Len(StaffsOf(mml)) : parsed.tracks[s] = ExpectedTrack(StaffsOf(mml)[s])


\* C23 as stated: an R token leaves no event in the parsed track.
C23_RestTokensLeaveNoEvent ==
    (parsed.op = "parse" /\ parsed.threw = "none") =>
        \A t \in 1..Len(parsed.tracks) :
            \A k \in 1..Len(parsed.tracks[t]) : parsed.tracks[t][k].note # RestText

\* C23 as amended: an R token, with its optional length and dot, leaves in the parsed
\* track an event whose pitch is REST and whose duration is the computed one; playMml
\* makes no voice for that event, and the delay of every voice is the sum of the
\* durations of all the events before it in its track, the rests among them.
VoiceOf(tracks, t, k) ==
    NewVoices[VoicesBefore(tracks, t)
              + Cardinality({j \in 1..k : ~IsRestEvent(tracks[t][j])})]

C23_RestsAreEventsWithoutVoices ==
    /\ (parsed.op = "parse" /\ parsed.threw = "none" /\ Inked(mml) # {}) =>
          /\ Len(parsed.tracks) = Len(SoundingStaffs(mml))
          /\ \A t \in 1..Len(parsed.tracks) :
                LET line == SoundingStaffs(mml)[t]
                    positions == SortAscending(NotePositions(line))
                IN  /\ Len(parsed.tracks[t]) = Len(positions)
                    /\ \A k \in 1..Len(positions) :
                          /\ (line[positions[k]] = "R") = (parsed.tracks[t][k].note = RestText)
                          /\ line[positions[k]] = "R" =>
                                /\ parsed.tracks[t][k].duration
                                       = ExpectedEvent(line, positions[k]).duration
                                /\ parsed.tracks[t][k].duration.num > 0
    /\ (last.op = "playMml" /\ parsed.op = "parse") =>
          /\ last.threw = "none"
          /\ Len(NewVoices) = VoicesBefore(last.tracks, Len(last.tracks) + 1)
          /\ \A t \in 1..Len(last.tracks) :
                \A k \in 1..Len(last.tracks[t]) :
                    ~IsRestEvent(last.tracks[t][k]) =>
                        /\ VoiceOf(last.tracks, t, k).delay = SumBefore(last.tracks[t], k)
                        /\ VoiceOf(last.tracks, t, k).startAt
                               = VoiceOf(last.tracks, t, k).contextTime
                                 + SumBefore(last.tracks[t], k)

\* A staff 'r' then a note, played: the track holds the REST event and the note, one
\* voice was made, and its delay is the duration of the rest.
C23_Witness ==
    /\ last.op = "playMml" /\ parsed.op = "parse"
    /\ Len(last.tracks) = 1 /\ Len(last.tracks[1]) = 2
    /\ parsed.tracks[1][1].note = RestText
    /\ parsed.tracks[1][2].note # RestText
    /\ Len(NewVoices) = 1
    /\ NewVoices[1].delay = last.tracks[1][1].duration
    /\ NewVoices[1].delay > 0


\* C24: noteToFrequency maps A of octave 4 to 440 Hz and A of octave 5 to 880 Hz.
SameNote(text, note) == ToLowerCase(Trim(text)) = note
C24_A4Is440 ==
    pitch.op = "convert" =>
        /\ SameNote(pitch.note, <<"a", "4">>) => (pitch.threw = "none" /\ pitch.value = 44000)
        /\ SameNote(pitch.note, <<"a", "5">>) => (pitch.threw = "none" /\ pitch.value = 88000)


\* C25 as stated: for every valid note text noteToFrequency returns a positive finite
\* number, and for the same letter and accidental one octave higher it returns
\* exactly twice that number.
Converted == pitch.op = "convert" /\ pitch.threw = "none"
OctaveDigit(text) == DigitValue(Trim(text)[Len(Trim(text))])
OctaveUp(text) ==
    SubSeq(Trim(text), 1, Len(Trim(text)) - 1) \o <<Digits[OctaveDigit(text) + 2]>>
C25_OctaveUpDoublesExactly ==
    Converted =>
        /\ pitch.value > 0 /\ IsFinite(pitch.value)
        /\ OctaveDigit(pitch.note) < 9 =>
              NoteToFrequency(OctaveUp(pitch.note)) = 2 * pitch.value

\* C25 as amended: for every valid note text of an octave 0..9 noteToFrequency
\* returns a positive finite number, and for the same letter and accidental one
\* octave higher it returns twice that number to within 0.01 Hz.
C25_OctaveUpDoublesToTheCent ==
    Converted =>
        /\ pitch.value > 0 /\ IsFinite(pitch.value)
        /\ OctaveDigit(pitch.note) < 9 =>
              /\ ~NoteToFrequencyThrows(OctaveUp(pitch.note))
              /\ Abs(NoteToFrequency(OctaveUp(pitch.note)) - 2 * pitch.value) <= 1

\* A note whose octave above is not exactly its double: c#4 is 466.16 Hz and c#5 is
\* 932.33 Hz.
C25_Witness ==
    /\ Converted
    /\ SameNote(pitch.note, <<"c", "#", "4">>)
    /\ pitch.value = 46616
    /\ NoteToFrequency(OctaveUp(pitch.note)) = 93233


\* C26 as stated: noteToFrequency accepts a letter A-G in either case, then an
\* optional accidental, '#' or '+' for a sharp (one semitone up) and 'b' or '-' for a
\* flat (one semitone down), then an octave in digits, and throws for every other text.
AllDigitsFrom(n, i) == i <= Len(n) /\ \A j \in i..Len(n) : n[j] \in {Digits[d] : d \in 1..Len(Digits)}
HasShape(n, signs) ==
    /\ Len(n) >= 2
    /\ n[1] \in {"a", "b", "c", "d", "e", "f", "g"}
    /\ \/ AllDigitsFrom(n, 2)
       \/ n[2] \in signs /\ AllDigitsFrom(n, 3)
SemitoneOf(letter) ==
    CASE letter = "c" -> 0 [] letter = "d" -> 2 [] letter = "e" -> 4 [] letter = "f" -> 5
      [] letter = "g" -> 7 [] letter = "a" -> 9 [] letter = "b" -> 11
ShapeValue(n, sharps, flats) ==
    LET signed == ~AllDigitsFrom(n, 2)
        shift == IF signed /\ n[2] \in sharps THEN 1 ELSE IF signed /\ n[2] \in flats THEN -1 ELSE 0
        octave == ParseInt(SubSeq(n, IF signed THEN 3 ELSE 2, Len(n)))
    IN  FrequencyTable[SemitoneOf(n[1]) + shift + (octave - 4) * 12 + 50]
Lowered(text) == ToLowerCase(Trim(text))

C26_PlusAndMinusAreAccidentals ==
    pitch.op = "convert" =>
        IF HasShape(Lowered(pitch.note), {"#", "+", "b", "-"})
        THEN /\ pitch.threw = "none"
             /\ pitch.value = ShapeValue(Lowered(pitch.note), {"#", "+"}, {"b", "-"})
        ELSE pitch.threw = "Error"

\* C26 as amended: noteToFrequency accepts, after trimming the white space around the
\* text, a letter A-G in either case, then an optional accidental, '#' for a sharp (one
\* semitone up) or 'b' in either case for a flat (one semitone down), then an octave
\* in digits, and throws for every other text, those with '+' or '-' among them.
C26_OnlyHashAndBAreAccidentals ==
    pitch.op = "convert" =>
        IF HasShape(Lowered(pitch.note), {"#", "b"})
        THEN /\ pitch.threw = "none"
             /\ pitch.value = ShapeValue(Lowered(pitch.note), {"#"}, {"b"})
        ELSE pitch.threw = "Error"

\* A note with '+' was given and noteToFrequency threw.
C26_Witness ==
    /\ pitch.op = "convert"
    /\ Lowered(pitch.note) = <<"c", "+", "4">>
    /\ pitch.threw = "Error"


\* C27: playSample aborts on invalid options before any side effect: a duration that
\* is a number not above 0, or else a volume that is a number outside [0, 1], or else
\* a contextTime or a delay that is a number below 0, throws RangeError, or else a
\* malformed pitch throws Error; and whenever playSample throws, no voice was created
\* or started, nothing was connected to the master gain, and the registry is as it was.
CheckedCall == last'.tracks[1][1]
CheckedDuration == OrDefault(CheckedCall.options.duration, DEFAULT_DURATION_MS)
CheckedVolume == OrDefault(CheckedCall.options.volume, DEFAULT_VOLUME_15)
IsNumber(x) == x # NotFinite
DurationFits == IsNumber(CheckedDuration) /\ CheckedDuration > 0
VolumeFits == IsNumber(CheckedVolume) /\ CheckedVolume >= 0 /\ CheckedVolume <= 15
TimingFits ==
    /\ IsNumber(CheckedCall.timing.contextTime) /\ CheckedCall.timing.contextTime >= 0
    /\ IsNumber(CheckedCall.timing.delay) /\ CheckedCall.timing.delay >= 0
PitchFits == HasShape(Lowered(CheckedCall.options.note), {"#", "b"})

C27_Step ==
    last'.op = "playSample" =>
        /\ (IsNumber(CheckedDuration) /\ CheckedDuration <= 0) => last'.threw = "RangeError"
        /\ (DurationFits /\ IsNumber(CheckedVolume) /\ ~VolumeFits) => last'.threw = "RangeError"
        /\ (DurationFits /\ VolumeFits /\ ~TimingFits
              /\ IsNumber(CheckedCall.timing.contextTime) /\ IsNumber(CheckedCall.timing.delay))
               => last'.threw = "RangeError"
        /\ (DurationFits /\ VolumeFits /\ TimingFits /\ ~PitchFits) => last'.threw = "Error"
        /\ (DurationFits /\ VolumeFits /\ TimingFits /\ PitchFits) => last'.threw = "none"
        /\ last'.threw # "none" =>
              /\ nodes' = nodes
              /\ activeNodes' = activeNodes
              /\ masters' = masters /\ masterGain' = masterGain
        /\ last'.threw = "none" =>
              /\ Len(nodes') = Len(nodes) + 1
              /\ nodes'[Len(nodes')].started /\ nodes'[Len(nodes')].out = masterGain

C27_InvalidOptionsAbortBeforeSideEffects == [][C27_Step]_vars

\* With a voice playing, a call with a delay below 0 threw RangeError and left the
\* voice and the registry as they were.
C27_Witness ==
    /\ last.op = "playSample"
    /\ last.threw = "RangeError"
    /\ last.tracks[1][1].timing.delay = -1
    /\ last.tracks[1][1].options.duration = 20
    /\ last.tracks[1][1].options.volume = 12
    /\ Len(nodes) = 1 /\ Len(activeNodes) = 1
    /\ nodes[1].started


(***************************************************************************)
(* C28: the offline renderer against live playback.                        *)
(***************************************************************************)
\* The voices the last playMml call created, and the origin of their times.
LiveVoices == SubSeq(nodes, last.created + 1, Len(nodes))
LiveOrigin == now + LOOKAHEAD_MS

SameEnvelope(live, offline, origin) ==
    /\ live.value = offline.value
    /\ Len(live.events) = Len(offline.events)
    /\ \A k \in 1..Len(live.events) :
          /\ live.events[k].type = offline.events[k].type
          /\ live.events[k].value = offline.events[k].value
          /\ live.events[k].time - origin = offline.events[k].time

SameVoice(live, offline, origin) ==
    /\ live.kind = offline.kind
    /\ live.frequency = offline.frequency
    /\ live.buffer = offline.buffer
    /\ live.rateNum = offline.rateNum
    /\ live.rateDen = offline.rateDen
    /\ live.startAt - origin = offline.startAt
    /\ live.stopAt - live.startAt = offline.stopAt - offline.startAt
    /\ SameEnvelope(live.gain, offline.gain, origin)

\* C28: once a score has been rendered offline and played live over the same
\* store, the voices scheduled on the offline context are those created on the
\* live context, one for one and in the same order: same source (buffer and
\* playback rate, or a sine at the target frequency), same start relative to the
\* origin (now + lookahead live, 0 offline), same duration, same envelope.
C28_OfflineSchedulesWhatLivePlays ==
    (last.op = "playMml" /\ rendered.op = "render") =>
        /\ Len(LiveVoices) = Len(rendered.voices)
        /\ \A i \in 1..Len(rendered.voices) :
              i <= Len(LiveVoices) => SameVoice(LiveVoices[i], rendered.voices[i], LiveOrigin)

\* The same comparison for the scores both calls accept.
AcceptedScoresAgree ==
    (last.op = "playMml" /\ rendered.op = "render"
        /\ last.threw = "none" /\ rendered.threw = "none") =>
        /\ Len(LiveVoices) = Len(rendered.voices)
        /\ \A i \in 1..Len(rendered.voices) :
              i <= Len(LiveVoices) => SameVoice(LiveVoices[i], rendered.voices[i], LiveOrigin)


(***************************************************************************)
(* C29: what mmlToWavUrl makes of a score without a note.                  *)
(***************************************************************************)
\* Reading a container back: little-endian fields at a byte offset from 0.
ReadUint16(bytes, offset) == bytes[offset + 1] + 256 * bytes[offset + 2]
ReadUint32(bytes, offset) ==
    bytes[offset + 1] + 256 * bytes[offset + 2] + 65536 * bytes[offset + 3]
        + 16777216 * bytes[offset + 4]
TagAt(bytes, offset) == SubSeq(bytes, offset + 1, offset + 4)

HeaderChannels(bytes) == ReadUint16(bytes, 22)
HeaderSampleRate(bytes) == ReadUint32(bytes, 24)
HeaderByteRate(bytes) == ReadUint32(bytes, 28)
HeaderBlockAlign(bytes) == ReadUint16(bytes, 32)
HeaderBitDepth(bytes) == ReadUint16(bytes, 34)
HeaderDataLength(bytes) == ReadUint32(bytes, 40)
HeaderFrames(bytes) == HeaderDataLength(bytes) \div HeaderBlockAlign(bytes)

\* A canonical 16-bit PCM WAV file: the four tags, sizes that agree with the
\* length of the file, and a whole number of frames.
ValidContainer(bytes) ==
    /\ Len(bytes) >= 44
    /\ \A k \in 1..Len(bytes) : bytes[k] \in 0..255
    /\ TagAt(bytes, 0) = <<82, 73, 70, 70>>
    /\ ReadUint32(bytes, 4) = Len(bytes) - 8
    /\ TagAt(bytes, 8) = <<87, 65, 86, 69>>
    /\ TagAt(bytes, 12) = <<102, 109, 116, 32>>
    /\ ReadUint32(bytes, 16) = 16
    /\ ReadUint16(bytes, 20) = 1
    /\ HeaderChannels(bytes) >= 1
    /\ HeaderSampleRate(bytes) > 0
    /\ HeaderBitDepth(bytes) = 16
    /\ HeaderBlockAlign(bytes) = 2 * HeaderChannels(bytes)
    /\ HeaderByteRate(bytes) = HeaderSampleRate(bytes) * HeaderBlockAlign(bytes)
    /\ TagAt(bytes, 36) = <<100, 97, 116, 97>>
    /\ HeaderDataLength(bytes) = Len(bytes) - 44
    /\ HeaderDataLength(bytes) % HeaderBlockAlign(bytes) = 0

SilentData(bytes) == \A k \in 45..Len(bytes) : bytes[k] = 0

NoEvents(tracks) == \A t \in 1..Len(tracks) : Len(tracks[t]) = 0
OnlyRests(tracks) ==
    \A t \in 1..Len(tracks) : \A k \in 1..Len(tracks[t]) :
        /\ tracks[t][k].note = RestText
        /\ tracks[t][k].duration > 0
TrackLength(track) == SumBefore(track, Len(track) + 1)
RECURSIVE LongestTrack(_)
LongestTrack(tracks) ==
    IF tracks = <<>> THEN 0
    ELSE Max(TrackLength(Head(tracks)), LongestTrack(Tail(tracks)))

\* The rate and the channel count the context gives the render.
ContextRate == IF wav.context.sampleRate = Undefined THEN 44100 ELSE wav.context.sampleRate
ContextChannels == IF wav.context.channelCount = Undefined THEN 2 ELSE wav.context.channelCount

OfContext(bytes) ==
    /\ HeaderSampleRate(bytes) = ContextRate
    /\ HeaderChannels(bytes) = ContextChannels

\* C29 as stated: a score without events, or whose events are all rests, renders
\* without an error to a valid container of one silent frame: 44 bytes of header
\* and the zero samples of that frame.
C29_RestsRenderToOneSilentFrame ==
    (wav.op = "render" /\ OnlyRests(score)) =>
        /\ wav.threw = "none"
        /\ ValidContainer(wav.bytes)
        /\ OfContext(wav.bytes)
        /\ SilentData(wav.bytes)
        /\ HeaderFrames(wav.bytes) = 1

\* C29, amended: such a score renders without an error to a valid container
\* whose samples are all zero; it holds one frame if the score has no event at
\* all, and otherwise the frames of its longest track plus the 60 ms of padding
\* and fade (the count rounded up, or one more).
C29_RestsRenderToSilence ==
    (wav.op = "render" /\ OnlyRests(score)) =>
        /\ wav.threw = "none"
        /\ ValidContainer(wav.bytes)
        /\ OfContext(wav.bytes)
        /\ SilentData(wav.bytes)
        /\ IF NoEvents(score)
           THEN HeaderFrames(wav.bytes) = 1
           ELSE LET exact == (LongestTrack(score) + 60) * ContextRate
                IN  /\ HeaderFrames(wav.bytes) * 1000 >= exact
                    /\ (HeaderFrames(wav.bytes) - 1) * 1000 <= exact

C29_Witness ==
    /\ wav.op = "render"
    /\ wav.threw = "none"
    /\ score = << <<EventRest, EventRest>>, <<EventRest>> >>
    /\ ContextRate = 8000
    /\ HeaderFrames(wav.bytes) = 640
    /\ Len(wav.bytes) = 44 + 640 * 2 * ContextChannels


(***************************************************************************)
(* C30: the container read back against the buffer it was made from.       *)
(***************************************************************************)
\* The sample written for a frame and a channel (both from 1), read as a signed
\* 16-bit number.
ReadInt16(bytes, offset) ==
    LET unsigned == ReadUint16(bytes, offset)
    IN  IF unsigned >= 32768 THEN unsigned - 65536 ELSE unsigned
WrittenSample(bytes, frame, channel) ==
    ReadInt16(bytes, 44 + ((frame - 1) * HeaderChannels(bytes) + (channel - 1)) * 2)

\* A sample (in quarters) limited to [-1, 1], and a 16-bit number that is the
\* integer nearest to it on the scale of 32768 below zero and 32767 above.
Limited(sample) == Max(-4, Min(4, sample))
QuantizedFrom(written, sample) ==
    /\ written \in -32768..32767
    /\ 2 * Abs(4 * written - sample * (IF sample < 0 THEN 32768 ELSE 32767)) <= 4

HeaderReadsBack ==
    /\ Len(wav.bytes) = 44 + wav.buffer.length * wav.buffer.numberOfChannels * 2
    /\ ValidContainer(wav.bytes)
    /\ HeaderChannels(wav.bytes) = wav.buffer.numberOfChannels
    /\ HeaderSampleRate(wav.bytes) = wav.buffer.sampleRate
    /\ HeaderBitDepth(wav.bytes) = 16
    /\ HeaderBlockAlign(wav.bytes) = 2 * wav.buffer.numberOfChannels
    /\ HeaderByteRate(wav.bytes) = wav.buffer.sampleRate * 2 * wav.buffer.numberOfChannels
    /\ HeaderDataLength(wav.bytes) = wav.buffer.length * wav.buffer.numberOfChannels * 2

\* C30 as stated: the encoded buffer is 44 + N*C*2 bytes long, its header reads
\* back as C channels, rate R, 16 bits, block alignment 2*C, byte rate R*2*C and
\* data length N*C*2, and every written sample is the input sample clamped to
\* [-1, 1] and quantized to 16 bits; clamping an infinite sample gives an end of
\* the range.
C30_EncodingClampsEverySample ==
    wav.op = "encode" =>
        /\ HeaderReadsBack
        /\ \A frame \in 1..wav.buffer.length : \A channel \in 1..wav.buffer.numberOfChannels :
              LET sample == wav.buffer.data[channel][frame]
                  written == WrittenSample(wav.bytes, frame, channel)
              IN  IF sample = NotFinite THEN written \in {-32768, 32767}
                  ELSE QuantizedFrom(written, Limited(sample))

\* C30, amended: the same, with a sample that is not finite written as 0.
C30_EncodingReadsBack ==
    wav.op = "encode" =>
        /\ HeaderReadsBack
        /\ \A frame \in 1..wav.buffer.length : \A channel \in 1..wav.buffer.numberOfChannels :
              LET sample == wav.buffer.data[channel][frame]
                  written == WrittenSample(wav.bytes, frame, channel)
              IN  IF sample = NotFinite THEN written = 0
                  ELSE QuantizedFrom(written, Limited(sample))

C30_Witness ==
    /\ wav.op = "encode"
    /\ wav.buffer.numberOfChannels = 2
    /\ wav.buffer.length = 2
    /\ wav.buffer.sampleRate = 44100
    /\ wav.buffer.data = << <<5, -5>>, <<NotFinite, 1>> >>
    /\ Len(wav.bytes) = 52
    /\ HeaderByteRate(wav.bytes) = 176400
    /\ WrittenSample(wav.bytes, 1, 1) = 32767
    /\ WrittenSample(wav.bytes, 2, 1) = -32768
    /\ WrittenSample(wav.bytes, 1, 2) = 0
    /\ WrittenSample(wav.bytes, 2, 2) = 8192


(***************************************************************************)
(* C31.  Tokenizing is permissive and always ends: on every staff,         *)
(* parseLine does not throw; every pass of its loop moves the cursor       *)
(* forward, so the loop makes at most one pass per character of the staff; *)
(* a character that is no directive (T, O, V, L), no octave shift (> <),   *)
(* no note letter (A-G) and no rest (R) is stepped over, leaving the       *)
(* staff's state and the results as they were; and what the loop returns   *)
(* is what parseLine returns.                                              *)
(***************************************************************************)
TokenChars == {"T", "O", "V", "L", ">", "<", "A", "B", "C", "D", "E", "F", "G", "R"}

C31_Pass ==
    /\ parsed'.threw = "none"
    /\ parsed'.cursor > parsed.cursor
    /\ parsed'.cursor <= Len(mml) + 1
    /\ parsed'.passes = parsed.passes + 1
    /\ parsed'.passes <= Len(mml)
    /\ mml[parsed.cursor] \notin TokenChars =>
           /\ parsed'.cursor = parsed.cursor + 1
           /\ parsed'.state = parsed.state
           /\ parsed'.results = parsed.results

C31_Return ==
    /\ parsed'.threw = "none"
    /\ parsed'.passes <= Len(mml)
    /\ parsed'.results = ParseLine(mml, Piano)

C31_Step ==
    /\ parsed.op = "parseLine" /\ parsed'.op = "parseLine" => C31_Pass
    /\ parsed.op = "parseLine" /\ parsed'.op = "return" => C31_Return

C31_TokenizingIsPermissiveAndEnds == [][C31_Step]_vars

\* A staff of MaxChars characters has been gone through in fewer passes than
\* it has characters, an unknown character, a directive with its digit and a
\* blank among them.
C31_Witness ==
    /\ parsed.op = "return"
    /\ mml = <<"X", "T", "9", " ">>
    /\ parsed.passes = 3
    /\ parsed.state.tempo = MIN_TEMPO


(***************************************************************************)
(* C32.  For every voice, live or offline, the fade window of the envelope *)
(* is min(10 ms, half the voice's duration): the gain is set to 0 at the   *)
(* start time, the fade-in ramp ends one window after the start, the       *)
(* fade-out ramp starts one window before the stop time and reaches 0      *)
(* exactly at the stop time, and the automation points are in time order:  *)
(* start <= end of fade-in <= start of fade-out <= stop.                   *)
(***************************************************************************)
\* Twice the fade window the claim gives a voice of that duration.
TwiceFadeWindow(duration) == Min(2 * DEFAULT_FADE_DURATION_MS, duration)

EnvelopeOf(voice) == voice.gain.events

FadesWithinItsDuration(voice) ==
    LET events == EnvelopeOf(voice)
        fadeInEnd == events[2]
        fadeOutStart == events[Len(events) - 1]
        fadeOutEnd == events[Len(events)]
        window == TwiceFadeWindow(voice.stopAt - voice.startAt)
    IN  /\ Len(events) >= 3
        /\ events[1] = [type |-> "set", value |-> Silent, time |-> voice.startAt]
        /\ fadeInEnd.type = "ramp"
        /\ 2 * (fadeInEnd.time - voice.startAt) = window
        /\ 2 * (voice.stopAt - fadeOutStart.time) = window
        /\ fadeOutEnd = [type |-> "ramp", value |-> Silent, time |-> voice.stopAt]
        /\ voice.startAt <= fadeInEnd.time
        /\ fadeInEnd.time <= fadeOutStart.time
        /\ fadeOutStart.time <= voice.stopAt
        /\ \A i \in 1..(Len(events) - 1) : events[i].time <= events[i + 1].time

C32_FadeWindowIsHalfTheDurationAtMost ==
    /\ \A n \in 1..Len(nodes) : FadesWithinItsDuration(nodes[n])
    /\ \A k \in 1..Len(rendered.voices) : FadesWithinItsDuration(rendered.voices[k])


(***************************************************************************)
(* C33.  Every emitted event's duration is                                 *)
(* (60000 / tempo) * (4 / length) * (1.5 if dotted, else 1) milliseconds,  *)
(* tempo being the staff's current clamped tempo and length the note's own *)
(* length digits clamped to [1,64] when it has any and the staff's current *)
(* default length otherwise; a rest is timed as a note is.                 *)
(***************************************************************************)
\* The event the pass at hand has appended to the results.
EmittedEvent == parsed'.results[Len(parsed'.results)]

\* duration = (60000 / tempo) * (4 / length) * (3/2 or 1), the duration being a
\* fraction num / den of a millisecond
IsDurationOf(duration, tempo, length, isDotted) ==
    duration.num * (tempo * length * 2)
        = duration.den * (MS_PER_MINUTE * BEATS_PER_WHOLE * (IF isDotted THEN 3 ELSE 2))

C33_Emits ==
    LET p == parsed.cursor
        signed == mml[p] # "R" /\ p < Len(mml) /\ mml[p + 1] \in {"+", "-"}
        figureAt == IF signed THEN p + 1 ELSE p
        length == IF HasNumberAfter(mml, figureAt)
                  THEN Nearest(NumberAfter(mml, figureAt), MIN_LENGTH, MAX_LENGTH)
                  ELSE parsed.state.defaultLength
        dotAt == RunEnd(mml, figureAt) + 1
        isDotted == dotAt <= Len(mml) /\ mml[dotAt] = "."
    IN  /\ parsed.state.tempo = SettingAt(mml, p, "T", DEFAULT_TEMPO, MIN_TEMPO, MAX_TEMPO)
        /\ parsed.state.defaultLength
               = SettingAt(mml, p, "L", DEFAULT_LENGTH, MIN_LENGTH, MAX_LENGTH)
        /\ IsDurationOf(EmittedEvent.duration, parsed.state.tempo, length, isDotted)
        /\ EmittedEvent.duration.num > 0 /\ EmittedEvent.duration.den > 0

C33_Step ==
    (parsed.op = "parseLine" /\ Len(parsed'.results) = Len(parsed.results) + 1) => C33_Emits

C33_DurationFollowsTempoLengthAndDot == [][C33_Step]_vars

\* A dotted note of the default length and a rest with a length of its own, at
\* the default tempo: 750 ms and 2000/9 ms.
C33_Witness ==
    /\ parsed.op = "return"
    /\ mml = <<"C", ".", "R", "9">>
    /\ Len(parsed.results) = 2
    /\ parsed.results[1].duration = [num |-> 750, den |-> 1]
    /\ parsed.results[2].note = RestText
    /\ parsed.results[2].duration = [num |-> 2000, den |-> 9]


(***************************************************************************)
(* C34.  When no slot holds exactly the target frequency and two or more   *)
(* stored frequencies are equally near the target, resolveBuffer returns   *)
(* the buffer of the one that was stored first, in whatever order the      *)
(* instrument's samples were stored.                                       *)
(***************************************************************************)
NearestSlots(slots, target) == {i \in 1..Len(slots) : IsNearestSlot(slots, i, target)}
FirstOf(indices) == CHOOSE i \in indices : \A j \in indices : i <= j
IsTie ==
    /\ lookup.op = "resolve"
    /\ ~HasSlot(lookup.slots, lookup.target)
    /\ Cardinality(NearestSlots(lookup.slots, lookup.target)) >= 2

C34_FirstStoredWinsTies ==
    IsTie =>
        LET first == FirstOf(NearestSlots(lookup.slots, lookup.target))
        IN  /\ lookup.result.found
            /\ lookup.result.buffer = lookup.slots[first].buffer
            /\ lookup.result.rateDen = lookup.slots[first].freq

\* As amended: with a target and stored frequencies above 0, the winner of a tie
\* is the first of the tied frequencies in the order Object.keys lists the map:
\* the lowest of those that are whole numbers of hertz when there is one, else
\* the one stored first.
IsWholeHertz(slot) == slot.freq >= 0 /\ slot.freq % 100 = 0
ListedFirst(slots, tied) ==
    LET whole == {i \in tied : IsWholeHertz(slots[i])}
    IN  IF whole # {}
        THEN CHOOSE i \in whole : \A j \in whole : slots[i].freq <= slots[j].freq
        ELSE FirstOf(tied)

AllPositive ==
    /\ lookup.target > 0
    /\ \A i \in 1..Len(lookup.slots) : lookup.slots[i].freq > 0

C34_FirstListedWinsTies ==
    (IsTie /\ AllPositive) =>
        LET winner == ListedFirst(lookup.slots, NearestSlots(lookup.slots, lookup.target))
        IN  /\ lookup.result.found
            /\ lookup.result.buffer = lookup.slots[winner].buffer
            /\ lookup.result.rateDen = lookup.slots[winner].freq
            /\ lookup.result.rateNum = lookup.target

\* 441 Hz was stored before 439 Hz and C4 (440 Hz) is looked up: 439 Hz wins.
C34_Witness ==
    /\ IsTie
    /\ lookup.target = NoteToFrequency(NoteC4)
    /\ Len(lookup.slots) = 2
    /\ lookup.slots[1].freq = 44100
    /\ lookup.slots[2].freq = 43900
    /\ lookup.result.buffer = lookup.slots[2].buffer


(***************************************************************************)
(* C35.  Frequency resolution never yields a negative, zero or non-finite  *)
(* playback rate: whatever the map holds and whatever the target is, a     *)
(* match that resolveBuffer returns has a rate that is finite and > 0, and *)
(* when the rate target / nearest it computes is not finite or is <= 0 it  *)
(* returns no match.                                                       *)
(***************************************************************************)
\* The stored frequency the rate is computed from, when no slot holds the target.
ComputedFrom(slots, target) ==
    IF target = NotFinite THEN ListedFirst(slots, 1..Len(slots))
    ELSE ListedFirst(slots, NearestSlots(slots, target))

\* target / frequency is a finite number above 0
GivesPlayableRate(target, frequency) ==
    /\ target # NotFinite
    /\ target # 0 /\ frequency # 0
    /\ (target < 0) = (frequency < 0)

C35_RateIsFiniteAndPositive ==
    lookup.op = "resolve" =>
        LET slots == lookup.slots
            target == lookup.target
            result == lookup.result
            exact == HasSlot(slots, target)
        IN  /\ result.found =>
                  \/ result.rateNum = result.rateDen /\ result.rateDen > 0
                  \/ GivesPlayableRate(result.rateNum, result.rateDen)
            /\ (~exact /\ Len(slots) > 0) =>
                  LET from == slots[ComputedFrom(slots, target)].freq
                  IN  /\ ~GivesPlayableRate(target, from) => ~result.found
                      /\ GivesPlayableRate(target, from) =>
                             /\ result.found
                             /\ result.rateNum = target /\ result.rateDen = from

\* 0 Hz and 440 Hz are stored and 220 Hz is looked up: both are equally near,
\* Object.keys lists 0 first, the rate 220 / 0 is not finite, and there is no match.
C35_Witness ==
    /\ lookup.op = "resolve"
    /\ lookup.target = 22000
    /\ Len(lookup.slots) = 2
    /\ lookup.slots[1].freq = 44000
    /\ lookup.slots[2].freq = 0
    /\ ~lookup.result.found


(***************************************************************************)
(* C36.  With no stop() call, every voice activated by play or playSample  *)
(* is eventually disposed and out of the registry once its natural end     *)
(* has fired; when every voice has ended the registry is empty and stopped *)
(* reads true, and the registry stays empty until the next activation.     *)
(***************************************************************************)
EndedNaturally(n) == nodes[n].disposed /\ ~InRegistry(n) /\ ~nodes[n].listening

C36_Safety ==
    stops = 0 =>
        /\ \A n \in 1..Len(nodes) : nodes[n].disposed = ~InRegistry(n)
        /\ \A n \in 1..Len(nodes) : nodes[n].disposed => EndedNaturally(n)
        /\ (\A n \in 1..Len(nodes) : nodes[n].disposed) =>
               activeNodes = <<>> /\ Stopped(activeNodes, nodes)

C36_Step ==
    /\ \A n \in 1..Len(nodes) :
           (nodes[n].listening /\ ~nodes'[n].listening) =>
               /\ now >= nodes[n].stopAt
               /\ nodes'[n].disposed /\ nodes'[n].disposals = 1
               /\ \A i \in 1..Len(activeNodes') : activeNodes'[i] # n
    /\ (activeNodes = <<>> /\ activeNodes' # <<>>) => Len(nodes') > Len(nodes)

C36_VoicesEndByThemselves ==
    /\ []C36_Safety
    /\ [][C36_Step]_vars
    /\ \A n \in 1..(MaxVoices + 1) :
           (n <= Len(nodes)) ~> (n <= Len(nodes) /\ EndedNaturally(n))
    /\ <>[](activeNodes = <<>> /\ Stopped(activeNodes, nodes))

\* The two voices of a score have ended one after the other, the last of them
\* 30 ms after the first started; the registry is empty.
C36_Witness ==
    /\ stops = 0
    /\ Len(nodes) = 2
    /\ last.op # "playMml"
    /\ nodes[1].startAt = LOOKAHEAD_MS + 10
    /\ nodes[2].startAt = LOOKAHEAD_MS
    /\ EndedNaturally(1) /\ EndedNaturally(2)
    /\ activeNodes = <<>> /\ Stopped(activeNodes, nodes)
    /\ now >= nodes[1].stopAt


(***************************************************************************)
(* C37.  Every pitch name other than REST that the parser emits is a       *)
(* letter A-G, an accidental that is empty, '#' or 'B', and an octave of   *)
(* 1..7, and noteToFrequency accepts it: playing and rendering a score     *)
(* that has both delimiters throws no pitch format error, whatever the     *)
(* note letter, the '+' or '-' after it and the octave in effect.          *)
(***************************************************************************)
IsEmittedPitch(note) ==
    /\ Len(note) \in {2, 3}
    /\ note[1] \in {"A", "B", "C", "D", "E", "F", "G"}
    /\ Len(note) = 3 => note[2] \in {"#", "B"}
    /\ \E octave \in MIN_OCTAVE..MAX_OCTAVE : note[Len(note)] = Digits[octave + 1]

ParsedEvents ==
    UNION {{parsed.tracks[t][i] : i \in 1..Len(parsed.tracks[t])} : t \in 1..Len(parsed.tracks)}
ParsedPitches == {event \in ParsedEvents : ~IsRestEvent(event)}

C37_EmittedPitchesAreAccepted ==
    /\ (parsed.op = "parse" /\ parsed.threw = "none") =>
           \A event \in ParsedPitches :
               /\ IsEmittedPitch(event.note)
               /\ ~NoteToFrequencyThrows(event.note)
               /\ NoteToFrequency(event.note) > 0
    /\ last.op = "playMml" =>
           /\ last.threw = "none"
           /\ Len(nodes) = Cardinality(ParsedPitches)
           /\ \A n \in 1..Len(nodes) :
                  \E event \in ParsedPitches : nodes[n].frequency = NoteToFrequency(event.note)
    /\ rendered.op = "render" =>
           /\ rendered.threw = "none"
           /\ Len(rendered.voices) = Cardinality(ParsedPitches)

\* 'MML@O7>b-;' was parsed to the one pitch BB7, played and rendered.
C37_Witness ==
    /\ mml = MML_PREFIX \o <<"O", "7", ">", "b", "-">> \o MML_SUFFIX
    /\ ParsedPitches # {}
    /\ \A event \in ParsedPitches : event.note = <<"B", "B", "7">>
    /\ Len(nodes) = 1 /\ nodes[1].frequency = NoteToFrequency(<<"b", "b", "7">>)
    /\ rendered.op = "render" /\ Len(rendered.voices) = 1


\* C38: the voices of one track never overlap: of two non-rest events of a track the
\* earlier one's voice stops, at its start plus its duration, no later than the later
\* one's voice starts, so that at any instant at most one voice of a track sounds.
Sounds(voice, instant) == voice.startAt <= instant /\ instant < voice.stopAt
TrackVoices(tracks, t) ==
    {VoicesBefore(tracks, t) + i : i \in 1..NonRestCount(tracks[t])}

MapOf(name) == IF HasInstrument(buffers, KeyOf(name)) THEN buffers[KeyOf(name)] ELSE <<>>
HoldsPositiveFinite(name) ==
    \E i \in 1..Len(MapOf(name)) : IsFinite(MapOf(name)[i].freq) /\ MapOf(name)[i].freq > 0
MadeVoices == IF last.op = "render" THEN rendered.voices ELSE NewVoices
MadeThrew == IF last.op = "render" THEN rendered.threw ELSE last.threw
IsBufferBacked(voice, event) ==
    /\ voice.kind = "buffer"
    /\ voice.frequency = NoteToFrequency(event.note)
    /\ \E i \in 1..Len(MapOf(event.name)) : voice.buffer = MapOf(event.name)[i].buffer
    /\ voice.rateNum > 0 /\ voice.rateDen > 0
IsSine(voice, event) ==
    /\ voice.kind = "sine"
    /\ voice.frequency = NoteToFrequency(event.note)
    /\ voice.buffer = NoBuffer.buffer
Sampled == last.op \in {"playSample", "render"}
SampledEvents == AllNonRestEvents(last.tracks)

HasFinitePitch(event) == IsFinite(NoteToFrequency(event.note))

BareDirective ==
    /\ parsed.op = "parseLine"
    /\ parsed.cursor <= Len(mml)
    /\ mml[parsed.cursor] \in {"T", "O", "V", "L"}
    /\ (parsed.cursor = Len(mml) \/ ~IsDigit(mml[parsed.cursor + 1]))

ResetBy(letter) ==
    IF letter = "T" THEN [parsed.state EXCEPT !.tempo = 120]
    ELSE IF letter = "O" THEN [parsed.state EXCEPT !.octave = 4]
    ELSE IF letter = "V" THEN [parsed.state EXCEPT !.volume = 12]
    ELSE [parsed.state EXCEPT !.defaultLength = 4]

C40_Step ==
    BareDirective =>
        /\ parsed'.state = ResetBy(mml[parsed.cursor])
        /\ parsed'.cursor = parsed.cursor + 1
        /\ parsed'.results = parsed.results

C40_BareDirectiveResetsToDefault == [][C40_Step]_vars

\* 'O9OC': the octave is raised to 7, the bare O sets it back to 4, and the note
\* is C4.
C40_Witness ==
    /\ parsed.op = "return"
    /\ mml = <<"O", "9", "O", "C">>
    /\ parsed.passes = 3
    /\ parsed.state.octave = 4
    /\ Len(parsed.results) = 1
    /\ parsed.results[1].note = <<"C", "4">>

=============================================================================
